---------------------------- MODULE Spec2Model ----------------------------
(***************************************************************************)
(* IV fluid monitoring controller (MicroPython).                           *)
(*                                                                         *)
(*   src/sensors.py  DropSensor, BubbleDetector                            *)
(*   src/main.py     Buzzer, SmsSender, Prescription, MonitoringState and  *)
(*                   the state-machine loop of main()                      *)
(*   src/config.py   the constants                                         *)
(*                                                                         *)
(* Time.  `now' is utime.ticks_ms() in milliseconds; utime.time() is        *)
(* now \div 1000.  ticks_diff(a, b) is modelled as a - b: the 30-bit wrap   *)
(* of ticks_ms (about 12.4 days) lies outside the horizon of every run     *)
(* checked here.                                                           *)
(*                                                                         *)
(* Numbers.  delivered_ml, remaining_ml and percent_delivered are Python   *)
(* floats; they are kept as exact fractions [n, d] (d > 0) and compared by *)
(* cross-multiplication.  Every comparison the code makes is against an    *)
(* integer threshold that is hit exactly or missed by at least             *)
(* 1 / (target * drip_factor), so float rounding never changes an outcome. *)
(*                                                                         *)
(* Optional values.  Python's None is the empty sequence <<>>, a value v   *)
(* that may be None is <<v>>.                                              *)
(***************************************************************************)
EXTENDS Integers, Sequences, FiniteSets, TLC

VARIABLES
    now,               \* utime.ticks_ms()
    state,             \* main(): state
    mode,              \* main(): mode (NetworkMode)
    alarm_silenced,    \* main(): alarm_silenced
    last_network_check,\* main(): last_network_check (seconds)
    prescription,      \* main(): prescription (Prescription)
    monitoring_state,  \* main(): monitoring_state (None or MonitoringState)
    drop_sensor,       \* DropSensor instance
    bubble_detector,   \* BubbleDetector instance
    buzzer,            \* Buzzer instance, with the PWM duty last written
    leds,              \* the three indicator pins
    sms_connected,     \* SmsSender.connected
    pc,                \* "loop": in the while loop, "exit": main() returned
    cycles,            \* number of steps taken (bounds the runs)
    events,            \* number of input events so far (bounds the runs)
    pressed,           \* history: what each button's pressed() yields in the cycle just run
    sent,              \* history: sms.send calls of the episode, per event kind
    fired,             \* history: milestones fired in the episode, in order
    drop_log,          \* history: timestamps of the accepted drops
    bubble_log,        \* history: confirmations and triggers since the last clear
    last_call,         \* history: the last call made on the Prescription
    drop_pin,          \* history: the drop sensor pin's level in the iteration just run
    keypad_input,      \* KeypadInput instance, with its Keypad
    key_log            \* history: the key held down, the keys pressed since clear()

vars == <<now, state, mode, alarm_silenced, last_network_check, prescription,
          monitoring_state, drop_sensor, bubble_detector, buzzer, leds,
          sms_connected, pc, cycles, events, pressed, sent, fired, drop_log,
          bubble_log, last_call, drop_pin, keypad_input, key_log>>

loop_vars == <<state, mode, alarm_silenced, last_network_check, prescription,
               monitoring_state, buzzer, leds, sms_connected, pc, events,
               pressed, sent, fired, last_call, drop_pin, keypad_input,
               key_log>>

---------------------------------------------------------------------------
(* Bounds of the model                                                     *)

MaxCalls == 5          \* sensor-level specifications: calls made on the sensor
MaxCycles == 5         \* main loop: iterations of the while loop in one run
MaxEvents == 3         \* main loop: input events in one run (see Cost)

\* Time between two calls on a DropSensor: below, at and above the debounce
\* intervals tried, and long enough to age a timestamp out of the window.
DropDelays == {20, 40, 60000}
\* Debounce intervals a DropSensor is constructed with.
Debounces == {80, 100}
\* Time between two calls on a BubbleDetector: inside, at and just past the
\* confirmation window.
BubbleDelays == {100, 400, 401}

---------------------------------------------------------------------------
(* src/config.py                                                           *)

DEFAULT_DRIP_FACTOR == 20
MIN_VOLUME_ML == 1
MAX_VOLUME_ML == 1500
MIN_DURATION_MIN == 1
MAX_DURATION_MIN == 1440
DROP_DEBOUNCE_MS == 80
DROP_CONFIRM_TIMEOUT_SEC == 30
BUBBLE_CONFIRM_WINDOW_MS == 400
NETWORK_RECHECK_SEC == 60
LOW_VOLUME_THRESHOLD_ML == 200
WARNING_VOLUME_THRESHOLD_ML == 300
MILESTONES == <<0, 25, 50, 100>>
MODE_ONLINE == "online"
MODE_LOCAL_ONLY == "local_only"
BUZZER_ON_DUTY == 512
BUZZER_INTERVAL_LOW == 150
BUZZER_INTERVAL_BUBBLE == 100
BUZZER_INTERVAL_NO_FLOW == 200
STATE_PRESCRIPTION_INPUT == "prescription_input"
STATE_MONITORING == "monitoring"
STATE_BUBBLE_ALARM == "bubble_alarm"
STATE_NO_FLOW == "no_flow"
STATE_TIME_ELAPSED == "time_elapsed"
STATE_COMPLETE == "complete"
STATE_TERMINATED == "terminated"
MAIN_LOOP_DELAY_MS == 100
BUTTON_CHECK_INTERVAL_MS == 50

\* sensors.py: the sliding window of DropSensor, "60 seconds in milliseconds"
WINDOW_MS == 60000
\* main.py: "if drop_sensor.get_time_since_last_drop() < 5000:  # Flow resumed"
FLOW_RESUMED_MS == 5000

---------------------------------------------------------------------------
(* Helpers                                                                 *)

None == <<>>
Some(v) == <<v>>
Levels == {0, 1}

ticks_diff(a, b) == a - b
abs(x) == IF x < 0 THEN -x ELSE x
time_s(t) == t \div 1000

---------------------------------------------------------------------------
(* src/sensors.py: DropSensor                                              *)

DropSensor_init(level, debounce, t) ==
    [debounce_ms |-> debounce,
     total_drops |-> 0,
     last_drop_time |-> t,
     last_state |-> level,
     drop_timestamps |-> <<>>]

KeepAll(ts, t) == ts

\* _clean_old_timestamps: keep the timestamps at most 60 s old
clean_old_timestamps(ts, t) ==
    SelectSeq(ts, LAMBDA x : ticks_diff(t, x) <= WINDOW_MS)

DebounceIgnored(self, t) == TRUE

\* the debounce test of update
debounce_ok(self, t) ==
    ticks_diff(t, self.last_drop_time) >= self.debounce_ms

\* update at time t, the pin reading current_state: the return value and the
\* sensor afterwards
DropSensor_update(self, t, current_state) ==
    IF current_state = 1 /\ self.last_state = 0 /\ debounce_ok(self, t)
    THEN [ret |-> TRUE,
          self |-> [self EXCEPT
                      !.total_drops = @ + 1,
                      !.last_drop_time = t,
                      !.drop_timestamps = clean_old_timestamps(Append(@, t), t),
                      !.last_state = current_state]]
    ELSE [ret |-> FALSE,
          self |-> [self EXCEPT
                      !.last_state = current_state,
                      !.drop_timestamps = clean_old_timestamps(@, t)]]

get_total_drops(self) == self.total_drops
get_drops_per_minute(self) == Len(self.drop_timestamps)
get_time_since_last_drop(self, t) == ticks_diff(t, self.last_drop_time)

DropSensor_reset(self, t) ==
    [self EXCEPT !.total_drops = 0, !.last_drop_time = t, !.drop_timestamps = <<>>]

---------------------------------------------------------------------------
(* src/sensors.py: BubbleDetector                                          *)

BubbleDetector_init(ir, slot, window) ==
    [confirm_window_ms |-> window,
     last_ir_state |-> ir,
     last_slot_state |-> slot,
     last_ir_trigger |-> None,
     last_slot_trigger |-> None,
     bubble_detected |-> FALSE,
     bubble_confirmed |-> FALSE]

\* an update that never drops a trigger timestamp
keep_trigger(trig, t, self) == trig

\* a trigger timestamp older than the confirmation window is dropped unless the
\* bubble is confirmed
expire_trigger(trig, t, self) ==
    IF trig # None /\ ticks_diff(t, trig[1]) > self.confirm_window_ms
                   /\ ~self.bubble_confirmed
    THEN None ELSE trig

ConfirmAlways(self) == TRUE

\* "if not self.bubble_confirmed": only an unlatched detector confirms
may_confirm(self) == ~self.bubble_confirmed

OneTriggerEnough(self) ==
    self.last_ir_trigger # None \/ self.last_slot_trigger # None

\* both sensors have triggered, within the confirmation window of each other
triggers_paired(self) ==
    /\ self.last_ir_trigger # None
    /\ self.last_slot_trigger # None
    /\ abs(ticks_diff(self.last_ir_trigger[1], self.last_slot_trigger[1]))
          <= self.confirm_window_ms

BubbleDetector_update(self, t, ir_state, slot_state) ==
    LET s1 == [self EXCEPT
                 !.last_ir_trigger =
                     IF ir_state = 0 /\ self.last_ir_state = 1 THEN Some(t) ELSE @,
                 !.last_slot_trigger =
                     IF slot_state = 0 /\ self.last_slot_state = 1 THEN Some(t) ELSE @,
                 !.last_ir_state = ir_state,
                 !.last_slot_state = slot_state]
    IN  IF triggers_paired(s1) /\ may_confirm(s1)
        THEN [ret |-> TRUE,
              self |-> [s1 EXCEPT !.bubble_detected = TRUE,
                                  !.bubble_confirmed = TRUE]]
        ELSE [ret |-> FALSE,
              self |-> [s1 EXCEPT
                          !.last_ir_trigger = expire_trigger(@, t, s1),
                          !.last_slot_trigger = expire_trigger(@, t, s1)]]

is_bubble_detected(self) == self.bubble_confirmed

\* a clear_bubble that keeps the two trigger timestamps
clear_latch_only(self) ==
    [self EXCEPT !.bubble_detected = FALSE, !.bubble_confirmed = FALSE]

clear_bubble(self) ==
    [self EXCEPT !.bubble_detected = FALSE,
                 !.bubble_confirmed = FALSE,
                 !.last_ir_trigger = None,
                 !.last_slot_trigger = None]

BubbleDetector_reset(self, ir, slot) ==
    [clear_bubble(self) EXCEPT !.last_ir_state = ir, !.last_slot_state = slot]

---------------------------------------------------------------------------
(* src/keypad.py: Keypad, KeypadInput                                      *)

\* Keypad.__init__: debounce_ms=50; main(): KeypadInput(keypad, max_digits=4)
KEYPAD_DEBOUNCE_MS == 50
KEYPAD_MAX_DIGITS == 4

Digits == {"0", "1", "2", "3", "4", "5", "6", "7", "8", "9"}

Keypad_init(debounce) ==
    [debounce_ms |-> debounce, last_key_time |-> 0, last_key |-> None]

\* Keypad.scan at time t; down is the key held down, if any
Keypad_scan(self, t, down) ==
    IF down # None
    THEN IF down = self.last_key
            /\ ticks_diff(t, self.last_key_time) < self.debounce_ms
         THEN [ret |-> None, self |-> self]
         ELSE [ret |-> down,
               self |-> [self EXCEPT !.last_key = down, !.last_key_time = t]]
    ELSE [ret |-> None,
          self |-> IF ticks_diff(t, self.last_key_time) > self.debounce_ms
                   THEN [self EXCEPT !.last_key = None] ELSE self]

KeypadInput_init(debounce, max_digits) ==
    [keypad |-> Keypad_init(debounce),
     max_digits |-> max_digits,
     buffer |-> <<>>,
     last_key_processed |-> None]

KeypadInput_clear(self) == [self EXCEPT !.buffer = <<>>]

\* what process_key does with the key the scan returned
handle_key(self, key) ==
    IF key = "#" THEN self
    ELSE IF key = "*"
    THEN IF Len(self.buffer) > 0
         THEN [self EXCEPT !.buffer = SubSeq(@, 1, Len(@) - 1)] ELSE self
    ELSE IF key \in Digits /\ Len(self.buffer) < self.max_digits
    THEN [self EXCEPT !.buffer = Append(@, key)]
    ELSE self

\* "if key is None or key == self.last_key_processed: return (None, ...)"
process_scanned(self, key) ==
    IF key = None \/ key = self.last_key_processed
    THEN self
    ELSE handle_key([self EXCEPT !.last_key_processed = key], key[1])

\* KeypadInput.process_key at time t
process_key(self, t, down) ==
    process_scanned([self EXCEPT !.keypad = Keypad_scan(@, t, down).self],
                    Keypad_scan(self.keypad, t, down).ret)

NoKeys == [held |-> None, typed |-> <<>>]

---------------------------------------------------------------------------
(* src/main.py: Buzzer                                                     *)

MODE_OFF == "off"
MODE_LOW == "low"
MODE_COMPLETE == "complete"
MODE_FAULT == "fault"
MODE_BUBBLE == "bubble"
MODE_NO_FLOW == "no_flow"

\* duty_u16 argument of a sounding buzzer: config.BUZZER_ON_DUTY * 64
DutyOn == BUZZER_ON_DUTY * 64

Buzzer_init(t) ==
    [mode |-> MODE_OFF, last_toggle |-> t, state |-> 0, duty |-> 0]

Buzzer_set_mode(self, m, t) ==
    IF m # self.mode
    THEN [self EXCEPT !.mode = m, !.state = 0, !.last_toggle = t]
    ELSE self

Buzzer_interval(m) ==
    CASE m = MODE_LOW -> BUZZER_INTERVAL_LOW
      [] m = MODE_BUBBLE -> BUZZER_INTERVAL_BUBBLE
      [] m = MODE_NO_FLOW -> BUZZER_INTERVAL_NO_FLOW
      [] OTHER -> 200

Buzzer_update(self, t) ==
    IF self.mode = MODE_OFF
    THEN [self EXCEPT !.duty = 0]
    ELSE IF self.mode \in {MODE_COMPLETE, MODE_FAULT}
    THEN [self EXCEPT !.duty = DutyOn]
    ELSE IF ticks_diff(t, self.last_toggle) >= Buzzer_interval(self.mode)
    THEN [self EXCEPT !.state = 1 - @,
                      !.last_toggle = t,
                      !.duty = IF self.state = 0 THEN DutyOn ELSE 0]
    ELSE self

---------------------------------------------------------------------------
(* src/main.py: Prescription                                               *)

Frac(n, d) == [n |-> n, d |-> d]

Prescription_init ==
    [target_volume_ml |-> None,
     duration_minutes |-> None,
     drip_factor_gtt_ml |-> DEFAULT_DRIP_FACTOR,
     gtt_per_min_target |-> None,
     ml_per_hr_prescribed |-> None]

\* Python truthiness of an optional number: not None and not 0
Truthy(o) == o # None /\ o[1] # 0

recalculate(self) ==
    IF Truthy(self.target_volume_ml) /\ Truthy(self.duration_minutes)
    THEN [self EXCEPT
            !.ml_per_hr_prescribed =
                Some(Frac(self.target_volume_ml[1] * 60, self.duration_minutes[1])),
            !.gtt_per_min_target =
                Some(Frac(self.target_volume_ml[1] * self.drip_factor_gtt_ml,
                          self.duration_minutes[1]))]
    ELSE self

\* a set_volume that stores whatever it is given
set_volume_unchecked(self, volume_ml) ==
    [ret |-> TRUE,
     self |-> recalculate([self EXCEPT !.target_volume_ml = Some(volume_ml)])]

set_volume(self, volume_ml) ==
    IF MIN_VOLUME_ML <= volume_ml /\ volume_ml <= MAX_VOLUME_ML
    THEN [ret |-> TRUE,
          self |-> recalculate([self EXCEPT !.target_volume_ml = Some(volume_ml)])]
    ELSE [ret |-> FALSE, self |-> self]

set_duration(self, duration_min) ==
    IF MIN_DURATION_MIN <= duration_min /\ duration_min <= MAX_DURATION_MIN
    THEN [ret |-> TRUE,
          self |-> recalculate([self EXCEPT !.duration_minutes = Some(duration_min)])]
    ELSE [ret |-> FALSE, self |-> self]

\* a set_drip_factor that leaves the derived rates as they were
store_drip_factor(self, drip_factor) ==
    [ret |-> TRUE, self |-> [self EXCEPT !.drip_factor_gtt_ml = drip_factor]]

set_drip_factor(self, drip_factor) ==
    [ret |-> TRUE,
     self |-> recalculate([self EXCEPT !.drip_factor_gtt_ml = drip_factor])]

Prescription_is_complete(self) ==
    self.target_volume_ml # None /\ self.duration_minutes # None

Prescription_reset(self) == Prescription_init

\* history of a call on the Prescription: the method, its argument and what
\* it returned
NoCall == [op |-> "none", arg |-> 0, ret |-> TRUE]

---------------------------------------------------------------------------
(* src/main.py: MonitoringState.  The object keeps a reference to the      *)
(* Prescription; the methods that read it take it as the parameter p.      *)

NoMilestones == [m \in {0, 25, 50, 100} |-> FALSE]

MonitoringState_init ==
    [start_time |-> None,
     delivered_ml |-> Frac(0, 1),
     remaining_ml |-> Frac(0, 1),
     percent_delivered |-> Frac(0, 1),
     gtt_per_min_measured |-> 0,
     ml_per_hr_measured |-> Frac(0, 1),
     eta_hours |-> None,
     milestone_flags |-> NoMilestones,
     low_volume_sent |-> FALSE,
     bubble_sent |-> FALSE,
     no_flow_sent |-> FALSE,
     time_elapsed_sent |-> FALSE]

start_monitoring(self, t) ==
    [self EXCEPT !.start_time = Some(time_s(t)),
                 !.delivered_ml = Frac(0, 1),
                 !.percent_delivered = Frac(0, 1)]

Max(a, b) == IF a >= b THEN a ELSE b
Min(a, b) == IF a <= b THEN a ELSE b

\* an update_from_drops that does not clamp the percentage
update_from_drops_unclamped(self, p, total_drops, drops_per_min) ==
    LET drip == p.drip_factor_gtt_ml
        target == p.target_volume_ml[1]
        remaining == Frac(Max(0, target * drip - total_drops), drip)
    IN  [self EXCEPT
           !.delivered_ml = Frac(total_drops, drip),
           !.remaining_ml = remaining,
           !.percent_delivered =
               IF target > 0
               THEN Frac(total_drops * 100, target * drip)
               ELSE @,
           !.gtt_per_min_measured = drops_per_min,
           !.ml_per_hr_measured = IF drip > 0 THEN Frac(drops_per_min * 60, drip) ELSE @,
           !.eta_hours =
               IF drip > 0 /\ drops_per_min * 60 > 0
               THEN Some(Frac(remaining.n * drip, remaining.d * drops_per_min * 60))
               ELSE None]

update_from_drops(self, p, total_drops, drops_per_min) ==
    LET drip == p.drip_factor_gtt_ml
        target == p.target_volume_ml[1]
        remaining == Frac(Max(0, target * drip - total_drops), drip)
    IN  [self EXCEPT
           !.delivered_ml = Frac(total_drops, drip),
           !.remaining_ml = remaining,
           !.percent_delivered =
               IF target > 0
               THEN Frac(Min(100 * target * drip, total_drops * 100), target * drip)
               ELSE @,
           !.gtt_per_min_measured = drops_per_min,
           !.ml_per_hr_measured = IF drip > 0 THEN Frac(drops_per_min * 60, drip) ELSE @,
           !.eta_hours =
               IF drip > 0 /\ drops_per_min * 60 > 0
               THEN Some(Frac(remaining.n * drip, remaining.d * drops_per_min * 60))
               ELSE None]

get_elapsed_time_seconds(self, t) ==
    IF self.start_time = None THEN 0 ELSE time_s(t) - self.start_time[1]

\* an elapsed-time test that asks for more than the duration
is_time_elapsed_strict(self, p, t) ==
    /\ self.start_time # None
    /\ get_elapsed_time_seconds(self, t) > p.duration_minutes[1] * 60

is_time_elapsed(self, p, t) ==
    /\ self.start_time # None
    /\ get_elapsed_time_seconds(self, t) >= p.duration_minutes[1] * 60

\* a completion test that asks for more than the target
MoreThanTarget(self, p) ==
    self.delivered_ml.n > p.target_volume_ml[1] * self.delivered_ml.d

\* delivered_ml >= target_volume_ml
is_volume_complete(self, p) ==
    self.delivered_ml.n >= p.target_volume_ml[1] * self.delivered_ml.d

\* percent_delivered >= percent
percent_reached(self, percent) ==
    self.percent_delivered.n >= percent * self.percent_delivered.d

check_milestone(self, percent) ==
    IF percent \in DOMAIN self.milestone_flags
       /\ percent_reached(self, percent) /\ ~self.milestone_flags[percent]
    THEN [ret |-> TRUE, self |-> [self EXCEPT !.milestone_flags[percent] = TRUE]]
    ELSE [ret |-> FALSE, self |-> self]

reset_counters(self, p, t) ==
    [self EXCEPT !.start_time = Some(time_s(t)),
                 !.delivered_ml = Frac(0, 1),
                 !.remaining_ml = Frac(p.target_volume_ml[1], 1),
                 !.percent_delivered = Frac(0, 1),
                 !.milestone_flags = NoMilestones,
                 !.low_volume_sent = FALSE,
                 !.bubble_sent = FALSE,
                 !.no_flow_sent = FALSE,
                 !.time_elapsed_sent = FALSE]

\* remaining_ml < threshold
remaining_below(self, threshold) ==
    self.remaining_ml.n < threshold * self.remaining_ml.d

\* update_leds
update_leds(remaining_low, remaining_warning) ==
    IF remaining_low THEN [red |-> TRUE, yellow |-> FALSE, green |-> FALSE]
    ELSE IF remaining_warning THEN [red |-> FALSE, yellow |-> TRUE, green |-> FALSE]
    ELSE [red |-> FALSE, yellow |-> FALSE, green |-> TRUE]

---------------------------------------------------------------------------
(* src/main.py: main(), the state-machine loop.                            *)
(*                                                                         *)
(* One step of the model is one iteration of "while state != TERMINATED".  *)
(* The iteration is computed on a context record c holding main()'s local  *)
(* variables; c.now advances over the blocking sleeps inside the           *)
(* iteration and c.cont records that the iteration ended with `continue',  *)
(* which skips buzzer.update() and the loop delay.  The LCD is write-only  *)
(* and is left out, with last_lcd_update, which only paces it.             *)
(*                                                                         *)
(* Each button's pressed() is an input of the cycle: btn.ack, btn.new,     *)
(* btn.cal, btn.term say what the call yields if the cycle makes it.       *)

\* Values the keypad entry returns (input_volume, input_duration,
\* input_drip_factor return a value of the valid range).
Volumes == {1, 201}
Durations == {1}
DripFactors == {1}
\* Time the operator spends entering the three values, in milliseconds.
EntryTimes == {60000}

\* Duration of one full iteration: MAIN_LOOP_DELAY_MS, or that with the time
\* blocking collaborator calls (sms.send to each recipient, the probe, the
\* LCD) add: just past the no-flow timeout, and the shortest prescribed
\* duration.
CycleDelays == {MAIN_LOOP_DELAY_MS,
                DROP_CONFIRM_TIMEOUT_SEC * 1000 + MAIN_LOOP_DELAY_MS,
                MIN_DURATION_MIN * 60 * 1000}

\* utime.sleep() calls inside the loop, in seconds
PREPARING_SLEEP_S == 1
PRESCRIPTION_SET_SLEEP_S == 3
COUNTERS_RESET_SLEEP_S == 2
\* the two utime.sleep(2) of the boot sequence, in seconds
BOOT_SLEEP_S == 2

Buttons == [ack : BOOLEAN, new : BOOLEAN, cal : BOOLEAN, term : BOOLEAN]
NoButtons == [ack |-> FALSE, new |-> FALSE, cal |-> FALSE, term |-> FALSE]

Kinds == {"start", "m25", "m50", "m100", "low_volume", "bubble", "no_flow",
          "time_elapsed", "complete"}
NothingSent == [k \in Kinds |-> 0]

Ctx ==
    [now |-> now, state |-> state, mode |-> mode,
     alarm_silenced |-> alarm_silenced,
     last_network_check |-> last_network_check,
     prescription |-> prescription, ms |-> monitoring_state,
     drop_sensor |-> drop_sensor, bubble_detector |-> bubble_detector,
     buzzer |-> buzzer, leds |-> leds, sent |-> sent, fired |-> fired,
     drop_detected |-> FALSE, bubble_detected |-> FALSE, cont |-> FALSE]

\* the statements F after the statements that yield x: F(x), x evaluated once
Then(x, F(_)) == CHOOSE r \in {F(v) : v \in {x}} : TRUE

set_buzzer(c, m) == [c EXCEPT !.buzzer = Buzzer_set_mode(@, m, c.now)]

goto(c, s) == [c EXCEPT !.state = s]
continue(c) == [c EXCEPT !.cont = TRUE]

\* "if not alarm_silenced: buzzer.set_mode(m) else: buzzer.set_mode(MODE_OFF)"
alarm_sound(c, m) ==
    set_buzzer(c, IF ~c.alarm_silenced THEN m ELSE MODE_OFF)

\* "alarm_silenced = True; buzzer.set_mode(Buzzer.MODE_OFF)"
acknowledge(c) == set_buzzer([c EXCEPT !.alarm_silenced = TRUE], MODE_OFF)

set_leds(c, r, y, g) == [c EXCEPT !.leds = [red |-> r, yellow |-> y, green |-> g]]

(* ---- STATE_PRESCRIPTION_INPUT ---- *)

\* the three keypad entries, after prescription.reset()
enter_prescription(p, volume, duration, drip_factor) ==
    set_drip_factor(
        set_duration(set_volume(Prescription_reset(p), volume).self, duration).self,
        drip_factor).self

\* a session start that leaves the drop sensor as the last session left it
start_session_keeps_drops(c, t, ir, slot) ==
    [c EXCEPT
       !.now = t,
       !.bubble_detector = BubbleDetector_reset(@, ir, slot),
       !.sent = IF c.mode = MODE_ONLINE
                THEN [NothingSent EXCEPT !["start"] = 1] ELSE NothingSent,
       !.fired = <<0>>,
       !.ms = Some([start_monitoring(MonitoringState_init, t)
                      EXCEPT !.milestone_flags[0] = TRUE]),
       !.state = STATE_MONITORING]

\* "monitoring_state = MonitoringState(prescription); start_monitoring()",
\* the sensor resets, the start SMS and milestone 0, at time t
start_session(c, t, ir, slot) ==
    [c EXCEPT
       !.now = t,
       !.drop_sensor = DropSensor_reset(@, t),
       !.bubble_detector = BubbleDetector_reset(@, ir, slot),
       !.sent = IF c.mode = MODE_ONLINE
                THEN [NothingSent EXCEPT !["start"] = 1] ELSE NothingSent,
       !.fired = <<0>>,
       !.ms = Some([start_monitoring(MonitoringState_init, t)
                      EXCEPT !.milestone_flags[0] = TRUE]),
       !.state = STATE_MONITORING]

\* entry: the time the operator takes at the keypad (input_volume,
\* input_duration and input_drip_factor block until '#')
prescription_input(c, entry, volume, duration, drip_factor, ir, slot) ==
    start_session(
        [c EXCEPT !.prescription =
                      enter_prescription(@, volume, duration, drip_factor)],
        c.now + entry + (PREPARING_SLEEP_S + PRESCRIPTION_SET_SLEEP_S) * 1000,
        ir, slot)

(* ---- STATE_MONITORING ---- *)

MilestoneKind(m) ==
    CASE m = 25 -> "m25" [] m = 50 -> "m50" [] m = 100 -> "m100" [] OTHER -> "start"

\* one pass of "for milestone in config.MILESTONES"
milestone_step(c, milestone) ==
    IF check_milestone(c.ms[1], milestone).ret
    THEN [c EXCEPT
            !.ms = Some(check_milestone(c.ms[1], milestone).self),
            !.fired = Append(@, milestone),
            !.sent = IF c.mode = MODE_ONLINE /\ milestone > 0
                     THEN [@ EXCEPT ![MilestoneKind(milestone)] = @ + 1]
                     ELSE @]
    ELSE c

RECURSIVE milestone_loop(_, _)
milestone_loop(c, i) ==
    IF i > Len(MILESTONES) THEN c
    ELSE Then(milestone_step(c, MILESTONES[i]),
              LAMBDA c1 : milestone_loop(c1, i + 1))

\* a low-volume notification that does not look at the mode
low_volume_notify_any_mode(c) ==
    IF ~c.ms[1].low_volume_sent
    THEN [c EXCEPT !.ms[1].low_volume_sent = TRUE, !.sent["low_volume"] = @ + 1]
    ELSE c

\* "if not monitoring_state.low_volume_sent:" of the low-volume alert
low_volume_notify(c) ==
    IF ~c.ms[1].low_volume_sent
    THEN [c EXCEPT !.ms[1].low_volume_sent = TRUE,
                   !.sent = IF c.mode = MODE_ONLINE
                            THEN [@ EXCEPT !["low_volume"] = @ + 1] ELSE @]
    ELSE c

\* the low-volume alert and the buzzer of the MONITORING state
low_volume_alert(c) ==
    IF remaining_below(c.ms[1], LOW_VOLUME_THRESHOLD_ML)
    THEN alarm_sound(low_volume_notify(c), MODE_LOW)
    ELSE set_buzzer(c, MODE_OFF)

\* a periodic check that sounds the fault alarm when the probe fails
network_check_faults(c, probe) ==
    IF time_s(c.now) - c.last_network_check >= NETWORK_RECHECK_SEC
    THEN IF probe
         THEN [c EXCEPT !.last_network_check = time_s(c.now), !.mode = MODE_ONLINE]
         ELSE set_buzzer([c EXCEPT !.last_network_check = time_s(c.now),
                                   !.mode = MODE_LOCAL_ONLY,
                                   !.alarm_silenced = FALSE], MODE_FAULT)
    ELSE c

\* the periodic network check; probe is what check_internet_available returns
network_check(c, probe) ==
    IF time_s(c.now) - c.last_network_check >= NETWORK_RECHECK_SEC
    THEN [c EXCEPT !.last_network_check = time_s(c.now),
                   !.mode = IF probe THEN MODE_ONLINE ELSE MODE_LOCAL_ONLY]
    ELSE c

\* a Calibrate/Reset that leaves the drop sensor alone
calibrate_keeps_drops(c) ==
    [c EXCEPT !.ms = Some(reset_counters(c.ms[1], c.prescription, c.now)),
              !.alarm_silenced = FALSE,
              !.sent = NothingSent,
              !.fired = <<>>,
              !.now = @ + COUNTERS_RESET_SLEEP_S * 1000]

\* "if btn_cal.pressed():": counters reset, prescription kept
calibrate(c) ==
    [c EXCEPT !.drop_sensor = DropSensor_reset(@, c.now),
              !.ms = Some(reset_counters(c.ms[1], c.prescription, c.now)),
              !.alarm_silenced = FALSE,
              !.sent = NothingSent,
              !.fired = <<>>,
              !.now = @ + COUNTERS_RESET_SLEEP_S * 1000]

press_ack(c, btn) == IF btn.ack THEN acknowledge(c) ELSE c
press_cal(c, btn) == IF btn.cal THEN calibrate(c) ELSE c
press_term(c, btn) == IF btn.term THEN goto(c, STATE_TERMINATED) ELSE c
press_new(c, btn) == IF btn.new THEN goto(c, STATE_PRESCRIPTION_INPUT) ELSE c

\* the cal and term checks of MONITORING
monitoring_cal_term(c, btn) ==
    IF btn.term THEN continue(goto(press_cal(c, btn), STATE_TERMINATED))
    ELSE press_cal(c, btn)

\* the new check of MONITORING, which ends the iteration, and what follows it
monitoring_new(c, btn) ==
    IF btn.new
    THEN continue(set_buzzer(goto(c, STATE_PRESCRIPTION_INPUT), MODE_OFF))
    ELSE monitoring_cal_term(c, btn)

monitoring_buttons(c, btn) == monitoring_new(press_ack(c, btn), btn)

\* the no-flow guard: time since the last drop above the timeout
no_flow_timeout(c) ==
    get_time_since_last_drop(c.drop_sensor, c.now) > DROP_CONFIRM_TIMEOUT_SEC * 1000

alarm_state(c, s) == continue([goto(c, s) EXCEPT !.alarm_silenced = FALSE])

monitoring_leds(c) ==
    [c EXCEPT !.leds =
        update_leds(remaining_below(c.ms[1], LOW_VOLUME_THRESHOLD_ML),
                    remaining_below(c.ms[1], WARNING_VOLUME_THRESHOLD_ML))]

\* "drop_sensor.update(); ...; monitoring_state.update_from_drops(...)"
sample_drops(c, level) ==
    [c EXCEPT
       !.drop_detected = DropSensor_update(c.drop_sensor, c.now, level).ret,
       !.drop_sensor = DropSensor_update(@, c.now, level).self,
       !.ms = Some(update_from_drops(
                       @[1], c.prescription,
                       get_total_drops(DropSensor_update(c.drop_sensor, c.now, level).self),
                       get_drops_per_minute(
                           DropSensor_update(c.drop_sensor, c.now, level).self)))]

\* "bubble_detected = bubble_detector.update()"
sample_bubble(c, ir, slot) ==
    [c EXCEPT
       !.bubble_detected = BubbleDetector_update(c.bubble_detector, c.now, ir, slot).ret,
       !.bubble_detector = BubbleDetector_update(@, c.now, ir, slot).self]

\* the part of the MONITORING iteration no guard skips
monitoring_normal(c, btn, probe) ==
    Then(monitoring_leds(c), LAMBDA c1 :
    Then(milestone_loop(c1, 1), LAMBDA c2 :
    Then(low_volume_alert(c2), LAMBDA c3 :
    Then(network_check(c3, probe), LAMBDA c4 :
    monitoring_buttons(c4, btn)))))

\* a MONITORING that takes the volume for delivered without looking
volume_not_checked(c) == TRUE

volume_complete(c) == is_volume_complete(c.ms[1], c.prescription)

\* the guards of MONITORING with the no-flow guard ahead of the bubble guard
monitoring_guards_flow_first(c, btn, probe) ==
    IF no_flow_timeout(c)
    THEN alarm_state(c, IF volume_complete(c) THEN STATE_COMPLETE ELSE STATE_NO_FLOW)
    ELSE IF c.bubble_detected \/ is_bubble_detected(c.bubble_detector)
    THEN alarm_state(c, STATE_BUBBLE_ALARM)
    ELSE IF is_time_elapsed(c.ms[1], c.prescription, c.now)
    THEN alarm_state(c, IF volume_complete(c) THEN STATE_COMPLETE
                                                ELSE STATE_TIME_ELAPSED)
    ELSE monitoring_normal(c, btn, probe)

\* the guards of MONITORING, in the order of the code
monitoring_guards(c, btn, probe) ==
    IF c.bubble_detected \/ is_bubble_detected(c.bubble_detector)
    THEN alarm_state(c, STATE_BUBBLE_ALARM)
    ELSE IF no_flow_timeout(c)
    THEN alarm_state(c, IF volume_complete(c) THEN STATE_COMPLETE ELSE STATE_NO_FLOW)
    ELSE IF is_time_elapsed(c.ms[1], c.prescription, c.now)
    THEN alarm_state(c, IF volume_complete(c) THEN STATE_COMPLETE
                                                ELSE STATE_TIME_ELAPSED)
    ELSE monitoring_normal(c, btn, probe)

monitoring(c, level, ir, slot, btn, probe) ==
    IF c.ms = None
    THEN continue(goto(c, STATE_PRESCRIPTION_INPUT))
    ELSE Then(sample_bubble(sample_drops(c, level), ir, slot),
              LAMBDA c1 : monitoring_guards(c1, btn, probe))

(* ---- STATE_BUBBLE_ALARM ---- *)

bubble_notify(c) ==
    IF c.mode = MODE_ONLINE /\ ~c.ms[1].bubble_sent
    THEN [c EXCEPT !.ms[1].bubble_sent = TRUE, !.sent["bubble"] = @ + 1]
    ELSE c

\* an Acknowledge that silences and returns to MONITORING with the latch set
bubble_ack_keeps_latch(c, btn) ==
    IF btn.ack THEN goto(acknowledge(c), STATE_MONITORING) ELSE c

bubble_ack(c, btn) ==
    IF btn.ack
    THEN [goto(acknowledge(c), STATE_MONITORING) EXCEPT
             !.bubble_detector = clear_bubble(@)]
    ELSE c

bubble_alarm(c, btn) ==
    IF c.ms = None
    THEN continue(goto(c, STATE_PRESCRIPTION_INPUT))
    ELSE press_term(
             bubble_ack(
                 alarm_sound(bubble_notify(set_leds(c, TRUE, FALSE, FALSE)),
                             MODE_BUBBLE),
                 btn),
             btn)

(* ---- STATE_NO_FLOW ---- *)

no_flow_notify(c) ==
    IF c.mode = MODE_ONLINE /\ ~c.ms[1].no_flow_sent
    THEN [c EXCEPT !.ms[1].no_flow_sent = TRUE, !.sent["no_flow"] = @ + 1]
    ELSE c

\* "drop_sensor.update()" of NO_FLOW and TIME_ELAPSED
update_drop_sensor(c, level) ==
    [c EXCEPT !.drop_sensor = DropSensor_update(@, c.now, level).self]

\* what "Flow resumed" does to the session
resume(c) ==
    [goto(c, STATE_MONITORING) EXCEPT !.alarm_silenced = FALSE,
                                      !.ms[1].no_flow_sent = FALSE]

\* a NO_FLOW that a fresh drop does not leave
flow_never_resumes(c) == c

\* "if drop_sensor.get_time_since_last_drop() < 5000:  # Flow resumed"
flow_resumed(c) ==
    IF get_time_since_last_drop(c.drop_sensor, c.now) < FLOW_RESUMED_MS
    THEN resume(c)
    ELSE c

no_flow(c, level, btn) ==
    IF c.ms = None
    THEN continue(goto(c, STATE_PRESCRIPTION_INPUT))
    ELSE press_term(
             press_new(
                 press_ack(
                     flow_resumed(
                         update_drop_sensor(
                             alarm_sound(no_flow_notify(set_leds(c, TRUE, FALSE, FALSE)),
                                         MODE_NO_FLOW),
                             level)),
                     btn),
                 btn),
             btn)

(* ---- STATE_TIME_ELAPSED ---- *)

time_elapsed_notify(c) ==
    IF c.mode = MODE_ONLINE /\ ~c.ms[1].time_elapsed_sent
    THEN [c EXCEPT !.ms[1].time_elapsed_sent = TRUE, !.sent["time_elapsed"] = @ + 1]
    ELSE c

\* a TIME_ELAPSED that holds the session whatever was delivered
never_complete(c) == c

\* "if monitoring_state.is_volume_complete(): state = config.STATE_COMPLETE"
complete_if_delivered(c) ==
    IF volume_complete(c) THEN goto(c, STATE_COMPLETE) ELSE c

time_elapsed_ack(c, btn) ==
    IF btn.ack THEN goto(acknowledge(c), STATE_MONITORING) ELSE c

\* a TIME_ELAPSED that polls the drop sensor but leaves delivered_ml alone
time_elapsed_stale(c, level, btn) ==
    IF c.ms = None
    THEN continue(goto(c, STATE_PRESCRIPTION_INPUT))
    ELSE press_term(
             press_new(
                 time_elapsed_ack(
                     complete_if_delivered(
                         update_drop_sensor(
                             alarm_sound(
                                 time_elapsed_notify(set_leds(c, FALSE, TRUE, FALSE)),
                                 MODE_LOW),
                             level)),
                     btn),
                 btn),
             btn)

time_elapsed(c, level, btn) ==
    IF c.ms = None
    THEN continue(goto(c, STATE_PRESCRIPTION_INPUT))
    ELSE press_term(
             press_new(
                 time_elapsed_ack(
                     complete_if_delivered(
                         sample_drops(
                             alarm_sound(
                                 time_elapsed_notify(set_leds(c, FALSE, TRUE, FALSE)),
                                 MODE_LOW),
                             level)),
                     btn),
                 btn),
             btn)

(* ---- STATE_COMPLETE ---- *)

\* "if not monitoring_state.milestone_flags[100]:" of COMPLETE
complete_notify(c) ==
    IF ~c.ms[1].milestone_flags[100]
    THEN [c EXCEPT !.ms[1].milestone_flags[100] = TRUE,
                   !.fired = Append(@, 100),
                   !.sent = IF c.mode = MODE_ONLINE
                            THEN [@ EXCEPT !["complete"] = @ + 1] ELSE @]
    ELSE c

complete_new(c, btn) ==
    IF btn.new THEN set_buzzer(goto(c, STATE_PRESCRIPTION_INPUT), MODE_OFF) ELSE c

complete(c, btn) ==
    IF c.ms = None
    THEN continue(goto(c, STATE_PRESCRIPTION_INPUT))
    ELSE press_term(
             complete_new(
                 press_ack(
                     alarm_sound(complete_notify(set_leds(c, FALSE, FALSE, TRUE)),
                                 MODE_COMPLETE),
                     btn),
                 btn),
             btn)

(* ---- end of the iteration ---- *)

\* "buzzer.update(); utime.sleep_ms(config.MAIN_LOOP_DELAY_MS)", skipped by
\* `continue'
end_of_iteration(c, delay) ==
    IF c.cont THEN c
    ELSE [c EXCEPT !.buzzer = Buzzer_update(@, c.now), !.now = c.now + delay]

(* ---- inputs of a run ---- *)

\* An input event is a button press, a change of a sensor pin since the
\* iteration before (for the bubble pins, since they were last read), an
\* iteration that lasts longer than the loop delay, or a probe result that
\* differs from the current mode.  A run has at most MaxEvents
\* of them; an iteration without any is a quiet poll.
Bit(b) == IF b THEN 1 ELSE 0
CostButtons(btn) == Bit(btn.ack) + Bit(btn.new) + Bit(btn.cal) + Bit(btn.term)
CostDrop(level) == Bit(level # drop_pin)
CostBubble(ir, slot) ==
    Bit(ir # bubble_detector.last_ir_state) + Bit(slot # bubble_detector.last_slot_state)
CostDelay(delay) == Bit(delay # MAIN_LOOP_DELAY_MS)
CostProbe(probe) == Bit(probe # (mode = MODE_ONLINE))

\* an input the iteration does not read is left at its quiet value
Unread(c, delay, probe) ==
    /\ c.cont => delay = MAIN_LOOP_DELAY_MS
    /\ c.last_network_check = last_network_check => probe = (mode = MODE_ONLINE)

\* the context after the iteration becomes the next state
Becomes(c, btn, cost, level) ==
    /\ now' = c.now
    /\ state' = c.state
    /\ mode' = c.mode
    /\ alarm_silenced' = c.alarm_silenced
    /\ last_network_check' = c.last_network_check
    /\ prescription' = c.prescription
    /\ monitoring_state' = c.ms
    /\ drop_sensor' = c.drop_sensor
    /\ bubble_detector' = c.bubble_detector
    /\ buzzer' = c.buzzer
    /\ leds' = c.leds
    /\ sent' = c.sent
    /\ fired' = c.fired
    /\ pressed' = btn
    /\ drop_pin' = level
    /\ cycles' = cycles + 1
    /\ events' = events + cost
    /\ UNCHANGED <<sms_connected, pc, drop_log, bubble_log, last_call,
                   keypad_input, key_log>>

InLoop(s) == pc = "loop" /\ state = s /\ cycles < MaxCycles

PrescriptionInput ==
    /\ InLoop(STATE_PRESCRIPTION_INPUT)
    /\ \E volume \in Volumes, duration \in Durations, drip_factor \in DripFactors,
          ir \in Levels, slot \in Levels, btn \in Buttons, delay \in CycleDelays,
          entry \in EntryTimes :
         /\ events + CostButtons(btn) + CostBubble(ir, slot) + CostDelay(delay)
               <= MaxEvents
         /\ \E c \in {end_of_iteration(
                          prescription_input(Ctx, entry, volume, duration,
                                             drip_factor, ir, slot), delay)} :
               Becomes(c, btn,
                       CostButtons(btn) + CostBubble(ir, slot) + CostDelay(delay),
                       drop_pin)

Monitoring ==
    /\ InLoop(STATE_MONITORING)
    /\ \E level \in Levels, ir \in Levels, slot \in Levels, btn \in Buttons,
          probe \in BOOLEAN, delay \in CycleDelays :
         /\ events + CostButtons(btn) + CostDrop(level) + CostBubble(ir, slot)
                   + CostDelay(delay) + CostProbe(probe) <= MaxEvents
         /\ \E c \in {monitoring(Ctx, level, ir, slot, btn, probe)} :
               /\ Unread(c, delay, probe)
               /\ \E c1 \in {end_of_iteration(c, delay)} :
                     Becomes(c1, btn,
                             CostButtons(btn) + CostDrop(level) + CostBubble(ir, slot)
                               + CostDelay(delay) + CostProbe(probe),
                             level)

\* BUBBLE_ALARM does not read the drop sensor: the pin moves unseen
BubbleAlarm ==
    /\ InLoop(STATE_BUBBLE_ALARM)
    /\ \E level \in Levels, btn \in Buttons, delay \in CycleDelays :
         /\ events + CostButtons(btn) + CostDrop(level) + CostDelay(delay) <= MaxEvents
         /\ \E c \in {bubble_alarm(Ctx, btn)} :
               /\ Unread(c, delay, mode = MODE_ONLINE)
               /\ \E c1 \in {end_of_iteration(c, delay)} :
                     Becomes(c1, btn,
                             CostButtons(btn) + CostDrop(level) + CostDelay(delay),
                             level)

NoFlow ==
    /\ InLoop(STATE_NO_FLOW)
    /\ \E level \in Levels, btn \in Buttons, delay \in CycleDelays :
         /\ events + CostButtons(btn) + CostDrop(level) + CostDelay(delay) <= MaxEvents
         /\ \E c \in {no_flow(Ctx, level, btn)} :
               /\ Unread(c, delay, mode = MODE_ONLINE)
               /\ \E c1 \in {end_of_iteration(c, delay)} :
                     Becomes(c1, btn,
                             CostButtons(btn) + CostDrop(level) + CostDelay(delay),
                             level)

TimeElapsed ==
    /\ InLoop(STATE_TIME_ELAPSED)
    /\ \E level \in Levels, btn \in Buttons, delay \in CycleDelays :
         /\ events + CostButtons(btn) + CostDrop(level) + CostDelay(delay) <= MaxEvents
         /\ \E c \in {time_elapsed(Ctx, level, btn)} :
               /\ Unread(c, delay, mode = MODE_ONLINE)
               /\ \E c1 \in {end_of_iteration(c, delay)} :
                     Becomes(c1, btn,
                             CostButtons(btn) + CostDrop(level) + CostDelay(delay),
                             level)

Complete ==
    /\ InLoop(STATE_COMPLETE)
    /\ \E btn \in Buttons, delay \in CycleDelays :
         /\ events + CostButtons(btn) + CostDelay(delay) <= MaxEvents
         /\ \E c \in {complete(Ctx, btn)} :
               /\ Unread(c, delay, mode = MODE_ONLINE)
               /\ \E c1 \in {end_of_iteration(c, delay)} :
                     Becomes(c1, btn, CostButtons(btn) + CostDelay(delay), drop_pin)

\* the code after the loop: "buzzer.set_mode(Buzzer.MODE_OFF); led_*.off()"
Shutdown ==
    /\ pc = "loop"
    /\ state = STATE_TERMINATED
    /\ buzzer' = Buzzer_set_mode(buzzer, MODE_OFF, now)
    /\ leds' = [red |-> FALSE, yellow |-> FALSE, green |-> FALSE]
    /\ pc' = "exit"
    /\ UNCHANGED <<now, state, mode, alarm_silenced, last_network_check,
                   prescription, monitoring_state, drop_sensor, bubble_detector,
                   sms_connected, cycles, events, pressed, sent, fired, drop_log,
                   bubble_log, last_call, drop_pin, keypad_input, key_log>>

\* The first collaborator call of an iteration (lcd.clear() at the top of a
\* state, the pin read of drop_sensor.update() in MONITORING) raises.  The
\* while loop has no try/except: the exception leaves the loop and main(),
\* and the entry point logs it and raises it again.
CollaboratorRaises ==
    /\ pc = "loop"
    /\ state # STATE_TERMINATED
    /\ cycles < MaxCycles
    /\ events < MaxEvents
    /\ events' = events + 1
    /\ pc' = "raised"
    /\ UNCHANGED <<now, state, mode, alarm_silenced, last_network_check,
                   prescription, monitoring_state, drop_sensor, bubble_detector,
                   buzzer, leds, sms_connected, cycles, pressed, sent, fired,
                   drop_log, bubble_log, last_call, drop_pin, keypad_input,
                   key_log>>

\* main() up to the loop: the hardware is constructed, the boot sequence
\* decides the network mode (online only after a WiFi connection and a
\* successful probe) and the loop is entered in PRESCRIPTION_INPUT.
\* The bubble pins read idle (1) at construction; bubble_detector.reset()
\* reads them again before monitoring starts.
Init ==
    /\ now = 2 * BOOT_SLEEP_S * 1000
    /\ state = STATE_PRESCRIPTION_INPUT
    /\ \E connected \in BOOLEAN, probe \in BOOLEAN :
         /\ sms_connected = connected
         /\ mode = IF connected /\ probe THEN MODE_ONLINE ELSE MODE_LOCAL_ONLY
    /\ alarm_silenced = FALSE
    /\ last_network_check = time_s(now)
    /\ prescription = Prescription_init
    /\ monitoring_state = None
    /\ \E level \in Levels :
         /\ drop_sensor = DropSensor_init(level, DROP_DEBOUNCE_MS, 0)
         /\ drop_pin = level
    /\ bubble_detector = BubbleDetector_init(1, 1, BUBBLE_CONFIRM_WINDOW_MS)
    /\ buzzer = Buzzer_init(0)
    /\ leds = [red |-> FALSE, yellow |-> FALSE, green |-> FALSE]
    /\ pc = "loop"
    /\ cycles = 0
    /\ events = 0
    /\ pressed = NoButtons
    /\ sent = NothingSent
    /\ fired = <<>>
    /\ drop_log = [all |-> <<>>, base |-> 0]
    /\ bubble_log = [fires |-> 0, held |-> 0, ir |-> FALSE, slot |-> FALSE,
                     cleared |-> FALSE]
    /\ last_call = NoCall
    /\ keypad_input = KeypadInput_init(KEYPAD_DEBOUNCE_MS, KEYPAD_MAX_DIGITS)
    /\ key_log = NoKeys

Next ==
    \/ PrescriptionInput
    \/ Monitoring
    \/ BubbleAlarm
    \/ NoFlow
    \/ TimeElapsed
    \/ Complete
    \/ Shutdown
    \/ CollaboratorRaises

Spec == Init /\ [][Next]_vars

----------------------------------------------------------------------------
(* Sessions under way.  A run of the loop is taken up after a fixed prefix *)
(* of iterations, computed by the handlers above from the state at the     *)
(* entry of the loop, and continued by the same actions.                   *)

\* the loop's variables at the entry of the loop, the boot having ended in
\* mode m with the drop pin at level
Booted(level, m) ==
    [now |-> 2 * BOOT_SLEEP_S * 1000,
     state |-> STATE_PRESCRIPTION_INPUT,
     mode |-> m,
     alarm_silenced |-> FALSE,
     last_network_check |-> time_s(2 * BOOT_SLEEP_S * 1000),
     prescription |-> Prescription_init,
     ms |-> None,
     drop_sensor |-> DropSensor_init(level, DROP_DEBOUNCE_MS, 0),
     bubble_detector |-> BubbleDetector_init(1, 1, BUBBLE_CONFIRM_WINDOW_MS),
     buzzer |-> Buzzer_init(0),
     leds |-> [red |-> FALSE, yellow |-> FALSE, green |-> FALSE],
     sent |-> NothingSent, fired |-> <<>>,
     drop_detected |-> FALSE, bubble_detected |-> FALSE, cont |-> FALSE]

\* after the PRESCRIPTION_INPUT iteration: volume mL over one minute at one
\* drop per mL, entered in a minute, the iteration ending after delay
Started(level, m, volume, delay) ==
    end_of_iteration(
        prescription_input(Booted(level, m), 60000, volume, 1, 1, 1, 1), delay)

\* 2 mL over one minute; the first MONITORING iteration runs a minute after
\* the start, counts the first drop and finds the duration elapsed
ElapsedAfterOneDrop(m) ==
    [monitoring(Started(0, m, 2, 60000), 1, 1, 1, NoButtons, m = MODE_ONLINE)
        EXCEPT !.cont = FALSE]

\* 200 mL over one minute, monitoring about to begin
StartedAtThreshold(m) == Started(0, m, LOW_VOLUME_THRESHOLD_ML, MAIN_LOOP_DELAY_MS)

\* the loop's variables are those of the context c
Reached(c) ==
    /\ now = c.now
    /\ state = c.state
    /\ mode = c.mode
    /\ alarm_silenced = c.alarm_silenced
    /\ last_network_check = c.last_network_check
    /\ prescription = c.prescription
    /\ monitoring_state = c.ms
    /\ drop_sensor = c.drop_sensor
    /\ bubble_detector = c.bubble_detector
    /\ buzzer = c.buzzer
    /\ leds = c.leds
    /\ sent = c.sent
    /\ fired = c.fired
    /\ drop_pin = c.drop_sensor.last_state
    /\ sms_connected = (c.mode = MODE_ONLINE)
    /\ pc = "loop"
    /\ cycles = 0
    /\ events = 0
    /\ pressed = NoButtons
    /\ drop_log = [all |-> <<>>, base |-> 0]
    /\ bubble_log = [fires |-> 0, held |-> 0, ir |-> FALSE, slot |-> FALSE,
                     cleared |-> FALSE]
    /\ last_call = NoCall
    /\ keypad_input = KeypadInput_init(KEYPAD_DEBOUNCE_MS, KEYPAD_MAX_DIGITS)
    /\ key_log = NoKeys

InitLate ==
    \E m \in {MODE_ONLINE, MODE_LOCAL_ONLY} :
       \E c \in {ElapsedAfterOneDrop(m), StartedAtThreshold(m)} : Reached(c)

SpecLate == InitLate /\ [][Next]_vars

----------------------------------------------------------------------------
(* The loop left to itself: nobody presses a button, the bubble pins stay  *)
(* idle and no collaborator raises.  Every iteration ends (each blocking   *)
(* call of the loop returns) and the next one begins, so time advances and *)
(* the loop keeps cycling: weak fairness of the iteration.  The runs are   *)
(* followed until Horizon.                                                 *)

LiveVolumes == {1, 2}
LiveDelays == {10 * 1000, DROP_CONFIRM_TIMEOUT_SEC * 1000 + MAIN_LOOP_DELAY_MS}
Horizon == 250000
Settled == 100000

InitLive ==
    \E m \in {MODE_ONLINE, MODE_LOCAL_ONLY}, volume \in LiveVolumes :
       Reached(Started(0, m, volume, MAIN_LOOP_DELAY_MS))

\* the context after an iteration with no button pressed becomes the next state
Goes(c, level) ==
    /\ now' = c.now
    /\ state' = c.state
    /\ mode' = c.mode
    /\ alarm_silenced' = c.alarm_silenced
    /\ last_network_check' = c.last_network_check
    /\ prescription' = c.prescription
    /\ monitoring_state' = c.ms
    /\ drop_sensor' = c.drop_sensor
    /\ bubble_detector' = c.bubble_detector
    /\ buzzer' = c.buzzer
    /\ leds' = c.leds
    /\ sent' = c.sent
    /\ fired' = c.fired
    /\ drop_pin' = level
    /\ UNCHANGED <<sms_connected, pc, cycles, events, pressed, drop_log,
                   bubble_log, last_call, keypad_input, key_log>>

LiveMonitoring ==
    /\ pc = "loop"
    /\ state = STATE_MONITORING
    /\ now < Horizon
    /\ \E level \in Levels, delay \in LiveDelays :
         \E c \in {monitoring(Ctx, level, 1, 1, NoButtons, mode = MODE_ONLINE)} :
            \E c1 \in {end_of_iteration(c, delay)} : Goes(c1, level)

LiveNoFlow ==
    /\ pc = "loop"
    /\ state = STATE_NO_FLOW
    /\ now < Horizon
    /\ \E level \in Levels, delay \in LiveDelays :
         \E c \in {no_flow(Ctx, level, NoButtons)} :
            \E c1 \in {end_of_iteration(c, delay)} : Goes(c1, level)

LiveTimeElapsed ==
    /\ pc = "loop"
    /\ state = STATE_TIME_ELAPSED
    /\ now < Horizon
    /\ \E level \in Levels, delay \in LiveDelays :
         \E c \in {time_elapsed(Ctx, level, NoButtons)} :
            \E c1 \in {end_of_iteration(c, delay)} : Goes(c1, level)

LiveComplete ==
    /\ pc = "loop"
    /\ state = STATE_COMPLETE
    /\ now < Horizon
    /\ \E level \in Levels, delay \in LiveDelays :
         \E c \in {complete(Ctx, NoButtons)} :
            \E c1 \in {end_of_iteration(c, delay)} : Goes(c1, level)

NextLive == LiveMonitoring \/ LiveNoFlow \/ LiveTimeElapsed \/ LiveComplete

SpecLive == InitLive /\ [][NextLive]_vars /\ WF_vars(NextLive)

---------------------------------------------------------------------------
(* The sensor classes on their own: any sequence of calls at any of the    *)
(* sample times, as the claims about the classes ask for.  main()'s        *)
(* variables stay as constructed.                                          *)

NotStarted ==
    /\ state = STATE_PRESCRIPTION_INPUT
    /\ mode = MODE_LOCAL_ONLY
    /\ sms_connected = FALSE
    /\ alarm_silenced = FALSE
    /\ last_network_check = 0
    /\ prescription = Prescription_init
    /\ monitoring_state = None
    /\ buzzer = Buzzer_init(0)
    /\ leds = [red |-> FALSE, yellow |-> FALSE, green |-> FALSE]
    /\ pc = "loop"
    /\ events = 0
    /\ pressed = NoButtons
    /\ sent = NothingSent
    /\ fired = <<>>
    /\ last_call = NoCall
    /\ keypad_input = KeypadInput_init(KEYPAD_DEBOUNCE_MS, KEYPAD_MAX_DIGITS)
    /\ key_log = NoKeys

(* ---- DropSensor ---- *)

InitDrop ==
    /\ NotStarted
    /\ now = 0
    /\ cycles = 0
    /\ \E level \in Levels, debounce \in Debounces :
         /\ drop_sensor = DropSensor_init(level, debounce, 0)
         /\ drop_pin = level
    /\ bubble_detector = BubbleDetector_init(1, 1, BUBBLE_CONFIRM_WINDOW_MS)
    /\ drop_log = [all |-> <<>>, base |-> 0]
    /\ bubble_log = [fires |-> 0, held |-> 0, ir |-> FALSE, slot |-> FALSE,
                     cleared |-> FALSE]

\* drop_sensor.update() after dt more milliseconds, the pin reading level
DropUpdate ==
    /\ cycles < MaxCalls
    /\ \E dt \in DropDelays, level \in Levels :
         /\ now' = now + dt
         /\ drop_sensor' = DropSensor_update(drop_sensor, now + dt, level).self
         /\ drop_log' = IF DropSensor_update(drop_sensor, now + dt, level).ret
                        THEN [drop_log EXCEPT !.all = Append(@, now + dt)]
                        ELSE drop_log
    /\ cycles' = cycles + 1
    /\ UNCHANGED <<loop_vars, bubble_detector, bubble_log>>

\* drop_sensor.reset() after dt more milliseconds
DropReset ==
    /\ cycles < MaxCalls
    /\ \E dt \in DropDelays :
         /\ now' = now + dt
         /\ drop_sensor' = DropSensor_reset(drop_sensor, now + dt)
    /\ drop_log' = [drop_log EXCEPT !.base = Len(drop_log.all)]
    /\ cycles' = cycles + 1
    /\ UNCHANGED <<loop_vars, bubble_detector, bubble_log>>

NextDrop == DropUpdate \/ DropReset

SpecDrop == InitDrop /\ [][NextDrop]_vars

(* ---- BubbleDetector ---- *)

InitBubble ==
    /\ NotStarted
    /\ now = 0
    /\ cycles = 0
    /\ drop_sensor = DropSensor_init(0, DROP_DEBOUNCE_MS, 0)
    /\ drop_pin = 0
    /\ \E ir \in Levels, slot \in Levels :
         bubble_detector = BubbleDetector_init(ir, slot, BUBBLE_CONFIRM_WINDOW_MS)
    /\ drop_log = [all |-> <<>>, base |-> 0]
    /\ bubble_log = [fires |-> 0, held |-> 0, ir |-> FALSE, slot |-> FALSE,
                     cleared |-> FALSE]

\* the history of one update: confirmations returned, updates that found the
\* triggers paired while the latch was already set, sensors that triggered;
\* cleared tells whether the last clear_bubble()/reset() found the latch set
log_update(log, self, ret, ir_state, slot_state, after) ==
    [fires |-> log.fires + Bit(ret),
     held |-> log.held + Bit(self.bubble_confirmed /\ triggers_paired(after)),
     ir |-> log.ir \/ (ir_state = 0 /\ self.last_ir_state = 1),
     slot |-> log.slot \/ (slot_state = 0 /\ self.last_slot_state = 1),
     cleared |-> log.cleared]

\* bubble_detector.update() after dt more milliseconds
BubbleUpdate ==
    /\ cycles < MaxCalls
    /\ \E dt \in BubbleDelays, ir \in Levels, slot \in Levels :
         /\ now' = now + dt
         /\ \E r \in {BubbleDetector_update(bubble_detector, now + dt, ir, slot)} :
              /\ bubble_detector' = r.self
              /\ bubble_log' = log_update(bubble_log, bubble_detector, r.ret,
                                          ir, slot, r.self)
    /\ cycles' = cycles + 1
    /\ UNCHANGED <<loop_vars, drop_sensor, drop_log>>

\* bubble_detector.clear_bubble()
BubbleClear ==
    /\ cycles < MaxCalls
    /\ bubble_detector' = clear_bubble(bubble_detector)
    /\ bubble_log' = [fires |-> 0, held |-> 0, ir |-> FALSE, slot |-> FALSE,
                     cleared |-> bubble_detector.bubble_confirmed]
    /\ cycles' = cycles + 1
    /\ UNCHANGED <<now, loop_vars, drop_sensor, drop_log>>

\* bubble_detector.reset(), which reads the two pins
BubbleReset ==
    /\ cycles < MaxCalls
    /\ \E ir \in Levels, slot \in Levels :
         bubble_detector' = BubbleDetector_reset(bubble_detector, ir, slot)
    /\ bubble_log' = [fires |-> 0, held |-> 0, ir |-> FALSE, slot |-> FALSE,
                     cleared |-> bubble_detector.bubble_confirmed]
    /\ cycles' = cycles + 1
    /\ UNCHANGED <<now, loop_vars, drop_sensor, drop_log>>

NextBubble == BubbleUpdate \/ BubbleClear \/ BubbleReset

SpecBubble == InitBubble /\ [][NextBubble]_vars

(* ---- Prescription ---- *)

\* Arguments of set_volume, set_duration and set_drip_factor: the ends of
\* the valid ranges, their neighbours outside and values within.
VolumeArgs == {0, 1, 1000, 1500, 1501}
DurationArgs == {0, 1, 60, 1440, 1441}
DripFactorArgs == {-1, 0, 20, 60}

InitPrescription ==
    /\ NotStarted
    /\ now = 0
    /\ cycles = 0
    /\ drop_sensor = DropSensor_init(0, DROP_DEBOUNCE_MS, 0)
    /\ drop_pin = 0
    /\ bubble_detector = BubbleDetector_init(1, 1, BUBBLE_CONFIRM_WINDOW_MS)
    /\ drop_log = [all |-> <<>>, base |-> 0]
    /\ bubble_log = [fires |-> 0, held |-> 0, ir |-> FALSE, slot |-> FALSE,
                     cleared |-> FALSE]

\* a call on the prescription that returned r
Called(op, arg, r) ==
    /\ prescription' = r.self
    /\ last_call' = [op |-> op, arg |-> arg, ret |-> r.ret]
    /\ cycles' = cycles + 1
    /\ UNCHANGED <<now, state, mode, alarm_silenced, last_network_check,
                   monitoring_state, drop_sensor, bubble_detector, buzzer, leds,
                   sms_connected, pc, events, pressed, sent, fired, drop_log,
                   bubble_log, drop_pin, keypad_input, key_log>>

SetVolume ==
    /\ cycles < MaxCalls
    /\ \E v \in VolumeArgs : Called("set_volume", v, set_volume(prescription, v))

SetDuration ==
    /\ cycles < MaxCalls
    /\ \E d \in DurationArgs :
         Called("set_duration", d, set_duration(prescription, d))

SetDripFactor ==
    /\ cycles < MaxCalls
    /\ \E f \in DripFactorArgs :
         Called("set_drip_factor", f, set_drip_factor(prescription, f))

\* prescription.reset(), which returns None
ResetPrescription ==
    /\ cycles < MaxCalls
    /\ Called("reset", 0, [ret |-> TRUE, self |-> Prescription_reset(prescription)])

NextPrescription == SetVolume \/ SetDuration \/ SetDripFactor \/ ResetPrescription

SpecPrescription == InitPrescription /\ [][NextPrescription]_vars

(* ---- KeypadInput ---- *)

\* Keys tried on the keypad, and the time one pass of the polling loop of
\* input_volume takes: the sleep alone, and the sleep with the work around it.
KeypadKeys == {"0", "1", "#", "*"}
KeyDelays == {BUTTON_CHECK_INTERVAL_MS, 2 * BUTTON_CHECK_INTERVAL_MS}

InitKeypad ==
    /\ NotStarted
    /\ now = 0
    /\ cycles = 0
    /\ drop_sensor = DropSensor_init(0, DROP_DEBOUNCE_MS, 0)
    /\ drop_pin = 0
    /\ bubble_detector = BubbleDetector_init(1, 1, BUBBLE_CONFIRM_WINDOW_MS)
    /\ drop_log = [all |-> <<>>, base |-> 0]
    /\ bubble_log = [fires |-> 0, held |-> 0, ir |-> FALSE, slot |-> FALSE,
                     cleared |-> FALSE]

\* one pass of the loop of input_volume: process_key() with the key `down`
\* held down, then the sleep
Polled(down, typed) ==
    /\ cycles < MaxCalls
    /\ keypad_input' = process_key(keypad_input, now, down)
    /\ key_log' = [held |-> down, typed |-> typed]
    /\ \E dt \in KeyDelays : now' = now + dt
    /\ cycles' = cycles + 1
    /\ UNCHANGED <<state, mode, alarm_silenced, last_network_check,
                   prescription, monitoring_state, drop_sensor, bubble_detector,
                   buzzer, leds, sms_connected, pc, events, pressed, sent, fired,
                   drop_log, bubble_log, last_call, drop_pin>>

\* a key goes down while none is held, and the loop polls
KeyPress ==
    /\ key_log.held = None
    /\ \E k \in KeypadKeys : Polled(Some(k), Append(key_log.typed, k))

\* the key held stays down over the next poll
KeyHold ==
    /\ key_log.held # None
    /\ Polled(key_log.held, key_log.typed)

\* the key held is released, and the loop polls
KeyRelease ==
    /\ key_log.held # None
    /\ Polled(None, key_log.typed)

\* no key is down over the next poll
KeyIdle ==
    /\ key_log.held = None
    /\ Polled(None, key_log.typed)

\* '#' was processed: the entry ends, and the next one (the same after an
\* invalid value, input_duration after a valid one) starts with clear()
InputStarts ==
    /\ cycles < MaxCalls
    /\ key_log.typed # <<>>
    /\ key_log.typed[Len(key_log.typed)] = "#"
    /\ keypad_input.last_key_processed = Some("#")
    /\ keypad_input' = KeypadInput_clear(keypad_input)
    /\ key_log' = [key_log EXCEPT !.typed = <<>>]
    /\ cycles' = cycles + 1
    /\ UNCHANGED <<now, state, mode, alarm_silenced, last_network_check,
                   prescription, monitoring_state, drop_sensor, bubble_detector,
                   buzzer, leds, sms_connected, pc, events, pressed, sent, fired,
                   drop_log, bubble_log, last_call, drop_pin>>

NextKeypad == KeyPress \/ KeyHold \/ KeyRelease \/ KeyIdle \/ InputStarts

SpecKeypad == InitKeypad /\ [][NextKeypad]_vars

---------------------------------------------------------------------------
(* Properties.                                                             *)

OneShotFlags == {"low_volume_sent", "bubble_sent", "no_flow_sent", "time_elapsed_sent"}

\* C1: a one-shot flag of the session that is true stays true over every
\* step of the main loop other than an explicit reset (the PRESCRIPTION_INPUT
\* iteration, which builds a new session, or a MONITORING iteration with
\* Calibrate/Reset pressed).
OneShotFlagsLatch ==
    [][(/\ monitoring_state # None
        /\ monitoring_state' # None
        /\ state # STATE_PRESCRIPTION_INPUT
        /\ ~(state = STATE_MONITORING /\ pressed'.cal))
       => \A f \in OneShotFlags :
             monitoring_state[1][f] => monitoring_state'[1][f]]_vars

\* C2: within one episode sms.send is invoked at most once for each of the
\* event kinds low-volume, bubble, no-flow and time-elapsed (sent counts the
\* sends since the last new prescription or counter reset).
AtMostOneSmsPerEpisode ==
    \A k \in {"low_volume", "bubble", "no_flow", "time_elapsed"} : sent[k] <= 1

\* C3: a MONITORING iteration that samples no confirmed bubble and a time
\* since the last accepted drop above 30 000 ms moves to COMPLETE if
\* delivered_ml >= target_volume_ml and to NO_FLOW otherwise; NO_FLOW is
\* never entered with delivered_ml >= target_volume_ml.
NoFlowDecision ==
    /\ [][(/\ pc = "loop"
           /\ state = STATE_MONITORING
           /\ cycles' = cycles + 1
           /\ monitoring_state' # None
           /\ ~bubble_detector'.bubble_confirmed
           /\ now - drop_sensor'.last_drop_time > 30000)
          => state' = IF monitoring_state'[1].delivered_ml.n
                           >= prescription'.target_volume_ml[1]
                                * monitoring_state'[1].delivered_ml.d
                      THEN STATE_COMPLETE ELSE STATE_NO_FLOW]_vars
    /\ [][(state # STATE_NO_FLOW /\ state' = STATE_NO_FLOW)
          => /\ monitoring_state' # None
             /\ monitoring_state'[1].delivered_ml.n
                  < prescription'.target_volume_ml[1]
                      * monitoring_state'[1].delivered_ml.d]_vars

\* the no-flow guard has just moved a session with the volume delivered, and
\* the duration not yet over, to COMPLETE
NoFlowGuardCompletes ==
    /\ state = STATE_COMPLETE
    /\ monitoring_state # None
    /\ now - drop_sensor.last_drop_time > 30000
    /\ time_s(now) - monitoring_state[1].start_time[1]
          < prescription.duration_minutes[1] * 60

\* C4: any two accepted drops (updates that returned True) have timestamps
\* at least debounce_ms apart, whatever the levels and sample times.
AcceptedDropsDebounced ==
    \A i \in 1..Len(drop_log.all), j \in 1..Len(drop_log.all) :
        i < j => drop_log.all[j] - drop_log.all[i] >= drop_sensor.debounce_ms

\* two drops accepted exactly one debounce interval apart
TwoDropsOneDebounceApart ==
    /\ Len(drop_log.all) >= 2
    /\ drop_log.all[2] - drop_log.all[1] = drop_sensor.debounce_ms

\* C5: after every update at time now the window drop_timestamps is exactly
\* the timestamps of the drops accepted since the last reset that are at
\* most 60 000 ms old, and get_drops_per_minute() is their number.
WindowIsTrailingMinute ==
    /\ drop_sensor.drop_timestamps =
          SelectSeq(SubSeq(drop_log.all, drop_log.base + 1, Len(drop_log.all)),
                    LAMBDA x : now - x <= 60000)
    /\ get_drops_per_minute(drop_sensor) =
          Cardinality({i \in (drop_log.base + 1)..Len(drop_log.all) :
                          now - drop_log.all[i] <= 60000})

\* a drop accepted since the last reset has left the window and a younger
\* one is in it
WindowDroppedAnOldDrop ==
    /\ Len(drop_sensor.drop_timestamps) >= 1
    /\ \E i \in (drop_log.base + 1)..Len(drop_log.all) :
          now - drop_log.all[i] > 60000

\* C6: between two consecutive clear_bubble()/reset() calls update returns
\* True at most once.
ConfirmsOncePerClear == bubble_log.fires <= 1

\* after the confirmation a later update found the triggers paired again and
\* did not confirm again
PairedAgainWhileLatched == bubble_log.fires = 1 /\ bubble_log.held >= 1

MilestonesInOrderNoneSkipped ==
    monitoring_state # None =>
        /\ \A i \in 1..Len(fired), j \in 1..Len(fired) :
              i < j => fired[i] < fired[j]
        /\ monitoring_state[1].milestone_flags[100] =>
              /\ monitoring_state[1].milestone_flags[25]
              /\ monitoring_state[1].milestone_flags[50]

\* C9: an iteration of the main loop in which Terminate is pressed leaves the
\* state TERMINATED, whatever the state before and whatever else happens in
\* that iteration; TERMINATED never changes again.
TerminateAlwaysTerminates ==
    /\ [][(/\ pc = "loop"
           /\ state # STATE_TERMINATED
           /\ cycles' = cycles + 1
           /\ pressed'.term)
          => state' = STATE_TERMINATED]_vars
    /\ [][state = STATE_TERMINATED => state' = STATE_TERMINATED]_vars

\* C10: when the program has left the loop the buzzer is silent (mode off,
\* PWM duty 0) and the three indicators are off.
OutputsOffAtExit ==
    pc = "exit" =>
        /\ buzzer.mode = MODE_OFF
        /\ buzzer.duty = 0
        /\ ~leds.red /\ ~leds.yellow /\ ~leds.green

\* C11: sms.send is invoked only while the mode is online: an iteration in
\* which a notification of any kind is sent starts in mode online (the mode
\* changes only in the network check, after the sends of the iteration).  A
\* MONITORING iteration with Calibrate/Reset starts a new episode and a new
\* count.
SendsOnlyOnline ==
    /\ [][(state = STATE_PRESCRIPTION_INPUT /\ cycles' = cycles + 1
             /\ sent'["start"] = 1)
          => mode = MODE_ONLINE]_vars
    /\ [][(/\ state # STATE_PRESCRIPTION_INPUT
           /\ ~(state = STATE_MONITORING /\ pressed'.cal)
           /\ \E k \in Kinds : sent'[k] > sent[k])
          => mode = MODE_ONLINE]_vars

\* a local-only session whose low-volume alert has fired and that has sent
\* nothing
LocalOnlyAlertUnsent ==
    /\ mode = MODE_LOCAL_ONLY
    /\ monitoring_state # None
    /\ monitoring_state[1].low_volume_sent
    /\ \A k \in Kinds : sent[k] = 0

\* C12: no exception of a collaborator leaves the main loop: the program is
\* in the loop, or has left it through Terminate.
NoExceptionEscapes == pc \in {"loop", "exit"}

\* C13: after any sequence of set_volume, set_duration, set_drip_factor and
\* reset calls the derived rates are present exactly when both the volume
\* and the duration are set, and then ml_per_hr = volume / duration * 60 and
\* gtt_per_min_target = volume * drip_factor / duration.
DerivedRatesConsistent ==
    /\ (prescription.ml_per_hr_prescribed # None)
          <=> (prescription.target_volume_ml # None
                 /\ prescription.duration_minutes # None)
    /\ (prescription.gtt_per_min_target # None)
          <=> (prescription.target_volume_ml # None
                 /\ prescription.duration_minutes # None)
    /\ prescription.ml_per_hr_prescribed # None =>
          prescription.ml_per_hr_prescribed[1].n * prescription.duration_minutes[1]
             = prescription.target_volume_ml[1] * 60
                 * prescription.ml_per_hr_prescribed[1].d
    /\ prescription.gtt_per_min_target # None =>
          prescription.gtt_per_min_target[1].n * prescription.duration_minutes[1]
             = prescription.target_volume_ml[1] * prescription.drip_factor_gtt_ml
                 * prescription.gtt_per_min_target[1].d

\* 1000 mL over 60 min at 20 gtt/mL, entered with the drip factor last:
\* 1000 mL/hr and 1000/3 gtt/min
ThousandOverAnHour ==
    /\ last_call.op = "set_drip_factor"
    /\ prescription.target_volume_ml = Some(1000)
    /\ prescription.duration_minutes = Some(60)
    /\ prescription.drip_factor_gtt_ml = 20
    /\ prescription.ml_per_hr_prescribed # None
    /\ prescription.ml_per_hr_prescribed[1].n
          = 1000 * prescription.ml_per_hr_prescribed[1].d
    /\ prescription.gtt_per_min_target # None
    /\ 3 * prescription.gtt_per_min_target[1].n
          = 1000 * prescription.gtt_per_min_target[1].d

\* C14: set_volume succeeds exactly for 1..1500 and set_duration exactly for
\* 1..1440; a successful call stores its argument, a rejected call returns
\* False and leaves every field of the Prescription as it was.
SettersValidate ==
    [][(cycles' = cycles + 1 /\ last_call'.op \in {"set_volume", "set_duration"})
       => /\ last_call'.ret <=>
               (1 <= last_call'.arg
                  /\ last_call'.arg <= IF last_call'.op = "set_volume"
                                       THEN 1500 ELSE 1440)
          /\ ~last_call'.ret => prescription' = prescription
          /\ last_call'.ret =>
               IF last_call'.op = "set_volume"
               THEN prescription'.target_volume_ml = Some(last_call'.arg)
               ELSE prescription'.duration_minutes = Some(last_call'.arg)]_vars

\* set_volume(1501) was rejected on a prescription whose rates are derived
RejectedVolumeKeepsRates ==
    /\ last_call = [op |-> "set_volume", arg |-> 1501, ret |-> FALSE]
    /\ prescription.target_volume_ml = Some(1500)
    /\ prescription.ml_per_hr_prescribed # None

\* C15: set_drip_factor rejects a drip factor that is not positive: it
\* returns False and leaves the stored drip factor and the derived rates as
\* they were.
DripFactorValidated ==
    [][(cycles' = cycles + 1 /\ last_call'.op = "set_drip_factor"
          /\ last_call'.arg <= 0)
       => /\ ~last_call'.ret
          /\ prescription' = prescription]_vars

\* C16: COMPLETE is left only by New (to PRESCRIPTION_INPUT) or Terminate,
\* and an episode that is in COMPLETE with the mode online has sent exactly
\* one 100% notification, counting the milestone SMS of MONITORING and the
\* completion SMS of COMPLETE together (once the 100% flag is set), never two.
CompleteNotifiedOnce ==
    /\ [](sent["m100"] + sent["complete"] <= 1)
    /\ []((/\ state = STATE_COMPLETE
           /\ mode = MODE_ONLINE
           /\ monitoring_state # None
           /\ monitoring_state[1].milestone_flags[100])
          => sent["m100"] + sent["complete"] = 1)
    /\ [][(state = STATE_COMPLETE /\ state' # STATE_COMPLETE)
          => \/ state' = STATE_PRESCRIPTION_INPUT /\ pressed'.new
             \/ state' = STATE_TERMINATED /\ pressed'.term]_vars

\* C17: a NO_FLOW iteration in which Acknowledge is pressed (and neither
\* New nor Terminate) returns to MONITORING with the alarm silenced.
NoFlowAckResumesMonitoring ==
    [][(/\ pc = "loop"
        /\ state = STATE_NO_FLOW
        /\ cycles' = cycles + 1
        /\ pressed'.ack /\ ~pressed'.new /\ ~pressed'.term)
       => state' = STATE_MONITORING /\ alarm_silenced']_vars

\* C18: a TIME_ELAPSED iteration in which Acknowledge is pressed (and
\* neither New nor Terminate) returns to MONITORING with the alarm silenced;
\* and in an episode that has been in TIME_ELAPSED (time_elapsed_sent; that
\* state is left for MONITORING only by Acknowledge) a MONITORING iteration
\* that starts silenced, with no bubble, no no-flow, no low volume and no
\* New, Calibrate or Terminate, leaves the alarm silenced and the buzzer off.
TimeElapsedAckStaysSilenced ==
    /\ [][(/\ pc = "loop"
           /\ state = STATE_TIME_ELAPSED
           /\ cycles' = cycles + 1
           /\ pressed'.ack /\ ~pressed'.new /\ ~pressed'.term)
          => state' = STATE_MONITORING /\ alarm_silenced']_vars
    /\ [][(/\ pc = "loop"
           /\ state = STATE_MONITORING
           /\ cycles' = cycles + 1
           /\ monitoring_state # None
           /\ monitoring_state[1].time_elapsed_sent
           /\ alarm_silenced
           /\ ~pressed'.new /\ ~pressed'.cal /\ ~pressed'.term
           /\ ~bubble_detector'.bubble_confirmed
           /\ now - drop_sensor'.last_drop_time <= 30000
           /\ monitoring_state'[1].remaining_ml.n
                 >= 200 * monitoring_state'[1].remaining_ml.d)
          => alarm_silenced' /\ buzzer'.mode = MODE_OFF]_vars

\* C19: BUBBLE_ALARM is left only by Acknowledge or Terminate: Terminate
\* moves to TERMINATED; Acknowledge without Terminate clears the latch and
\* both trigger timestamps and returns to MONITORING with the alarm silenced;
\* with neither the state stays BUBBLE_ALARM.
BubbleAlarmExits ==
    [][(/\ pc = "loop"
        /\ state = STATE_BUBBLE_ALARM
        /\ cycles' = cycles + 1)
       => /\ pressed'.term => state' = STATE_TERMINATED
          /\ (pressed'.ack /\ ~pressed'.term) =>
                /\ state' = STATE_MONITORING
                /\ alarm_silenced'
                /\ ~bubble_detector'.bubble_confirmed
                /\ ~bubble_detector'.bubble_detected
                /\ bubble_detector'.last_ir_trigger = None
                /\ bubble_detector'.last_slot_trigger = None
          /\ (~pressed'.ack /\ ~pressed'.term) =>
                /\ state' = STATE_BUBBLE_ALARM
                /\ bubble_detector'.bubble_confirmed]_vars

\* a bubble alarm that was notified and acknowledged: back in MONITORING,
\* silenced, the detector cleared
BubbleAcknowledged ==
    /\ state = STATE_MONITORING
    /\ pressed.ack
    /\ alarm_silenced
    /\ monitoring_state # None
    /\ monitoring_state[1].bubble_sent
    /\ ~bubble_detector.bubble_confirmed
    /\ bubble_detector.last_ir_trigger = None

\* C20: an iteration of MONITORING, BUBBLE_ALARM, NO_FLOW, TIME_ELAPSED or
\* COMPLETE in which New is pressed (and not Terminate) moves to
\* PRESCRIPTION_INPUT.  The MONITORING iterations that an alarm guard ends
\* before the buttons are read are set aside.
NewRestartsFromAnyState ==
    [][(/\ pc = "loop"
        /\ state \in {STATE_MONITORING, STATE_BUBBLE_ALARM, STATE_NO_FLOW,
                      STATE_TIME_ELAPSED, STATE_COMPLETE}
        /\ cycles' = cycles + 1
        /\ pressed'.new /\ ~pressed'.term
        /\ state = STATE_MONITORING =>
             state' \notin {STATE_BUBBLE_ALARM, STATE_NO_FLOW,
                            STATE_TIME_ELAPSED, STATE_COMPLETE})
       => state' = STATE_PRESCRIPTION_INPUT]_vars

\* C21: a MONITORING iteration evaluates its guards in the order bubble,
\* no-flow, time-elapsed: with a bubble confirmed it moves to BUBBLE_ALARM
\* even if the no-flow timeout or the duration has expired too, and with no
\* bubble and the no-flow timeout expired it moves to NO_FLOW or COMPLETE,
\* never to TIME_ELAPSED, even if the duration has elapsed too.
GuardsInPriorityOrder ==
    [][(/\ pc = "loop"
        /\ state = STATE_MONITORING
        /\ cycles' = cycles + 1
        /\ monitoring_state # None)
       => /\ bubble_detector'.bubble_confirmed => state' = STATE_BUBBLE_ALARM
          /\ (/\ ~bubble_detector'.bubble_confirmed
              /\ now - drop_sensor'.last_drop_time > 30000
              /\ now \div 1000 - monitoring_state[1].start_time[1]
                   >= prescription.duration_minutes[1] * 60)
             => /\ state' \in {STATE_NO_FLOW, STATE_COMPLETE}
                /\ state' = STATE_NO_FLOW
                     <=> monitoring_state'[1].delivered_ml.n
                           < prescription.target_volume_ml[1]
                               * monitoring_state'[1].delivered_ml.d]_vars

\* a bubble was confirmed in an iteration where the no-flow timeout and the
\* duration had expired too, and the machine is in BUBBLE_ALARM
BubbleBeatsNoFlowAndTime ==
    /\ state = STATE_BUBBLE_ALARM
    /\ bubble_detector.bubble_confirmed
    /\ monitoring_state # None
    /\ monitoring_state[1].start_time # None
    /\ now - drop_sensor.last_drop_time > 30000
    /\ now \div 1000 - monitoring_state[1].start_time[1]
         >= prescription.duration_minutes[1] * 60

\* C22: a MONITORING iteration with no bubble confirmed and the no-flow
\* timeout not expired moves, once the elapsed time is at least
\* duration_minutes * 60 seconds, to COMPLETE if delivered_ml >=
\* target_volume_ml and to TIME_ELAPSED otherwise; before that it never moves
\* to TIME_ELAPSED, and moves to COMPLETE only through the no-flow guard.
TimeElapsedDecision ==
    [][(/\ pc = "loop"
        /\ state = STATE_MONITORING
        /\ cycles' = cycles + 1
        /\ monitoring_state # None
        /\ ~bubble_detector'.bubble_confirmed)
       => /\ (/\ now - drop_sensor'.last_drop_time <= 30000
              /\ now \div 1000 - monitoring_state[1].start_time[1]
                   >= prescription.duration_minutes[1] * 60)
             => state' = IF monitoring_state'[1].delivered_ml.n
                              >= prescription.target_volume_ml[1]
                                   * monitoring_state'[1].delivered_ml.d
                         THEN STATE_COMPLETE ELSE STATE_TIME_ELAPSED
          /\ now \div 1000 - monitoring_state[1].start_time[1]
                < prescription.duration_minutes[1] * 60
             => /\ state' # STATE_TIME_ELAPSED
                /\ state' = STATE_COMPLETE
                     => now - drop_sensor'.last_drop_time > 30000]_vars

\* the time guard has just moved a session to TIME_ELAPSED at the very second
\* the duration was over
TimeGuardFiredOnTheSecond ==
    /\ state = STATE_TIME_ELAPSED
    /\ monitoring_state # None
    /\ now \div 1000 - monitoring_state[1].start_time[1]
         = prescription.duration_minutes[1] * 60
    /\ now - drop_sensor.last_drop_time <= 30000
    /\ monitoring_state[1].delivered_ml.n
         < prescription.target_volume_ml[1] * monitoring_state[1].delivered_ml.d
    /\ ~monitoring_state[1].time_elapsed_sent

\* C23: in NO_FLOW an iteration that accepts a drop returns to MONITORING
\* with no Acknowledge pressed (New and Terminate aside), and an iteration
\* that accepts no drop with no button pressed stays in NO_FLOW.
NoFlowLeftByAFreshDrop ==
    [][(/\ pc = "loop"
        /\ state = STATE_NO_FLOW
        /\ cycles' = cycles + 1)
       => /\ (/\ drop_sensor'.total_drops = drop_sensor.total_drops + 1
              /\ ~pressed'.ack /\ ~pressed'.new /\ ~pressed'.term)
             => state' = STATE_MONITORING
          /\ (/\ drop_sensor'.total_drops = drop_sensor.total_drops
              /\ ~pressed'.ack /\ ~pressed'.new /\ ~pressed'.cal /\ ~pressed'.term)
             => state' = STATE_NO_FLOW]_vars

\* a drop has just ended a no-flow episode, nobody having pressed a button
FlowResumedUnacknowledged ==
    /\ state = STATE_MONITORING
    /\ pressed = NoButtons
    /\ monitoring_state # None
    /\ sent["no_flow"] = 1
    /\ ~monitoring_state[1].no_flow_sent
    /\ drop_sensor.total_drops = 1
    /\ ~alarm_silenced

\* C25: every PRESCRIPTION_INPUT iteration that enters MONITORING leaves a
\* fresh session: delivered_ml 0, the four one-shot flags false, milestones
\* 25, 50 and 100 not fired, the drop sensor zeroed with its no-flow timer
\* restarted at the moment the session timer starts, the bubble detector
\* cleared, and the start notification issued exactly when the mode is online.
SessionStartsFresh ==
    [][(/\ pc = "loop"
        /\ state = STATE_PRESCRIPTION_INPUT
        /\ cycles' = cycles + 1
        /\ state' = STATE_MONITORING)
       => /\ monitoring_state' # None
          /\ monitoring_state'[1].delivered_ml.n = 0
          /\ ~monitoring_state'[1].low_volume_sent
          /\ ~monitoring_state'[1].bubble_sent
          /\ ~monitoring_state'[1].no_flow_sent
          /\ ~monitoring_state'[1].time_elapsed_sent
          /\ \A m \in {25, 50, 100} : ~monitoring_state'[1].milestone_flags[m]
          /\ drop_sensor'.total_drops = 0
          /\ drop_sensor'.drop_timestamps = <<>>
          /\ drop_sensor'.last_drop_time > now
          /\ drop_sensor'.last_drop_time <= now'
          /\ drop_sensor'.last_drop_time \div 1000
               = monitoring_state'[1].start_time[1]
          /\ ~bubble_detector'.bubble_confirmed
          /\ ~bubble_detector'.bubble_detected
          /\ bubble_detector'.last_ir_trigger = <<>>
          /\ bubble_detector'.last_slot_trigger = <<>>
          /\ sent'["start"] = IF mode = "online" THEN 1 ELSE 0
          /\ \A k \in Kinds \ {"start"} : sent'[k] = 0]_vars

\* a second session has started, fresh and announced, after New
SecondSessionFresh ==
    /\ state = STATE_MONITORING
    /\ cycles >= 3
    /\ monitoring_state # None
    /\ monitoring_state[1].start_time[1] * 1000 > 68000
    /\ sent["start"] = 1
    /\ fired = <<0>>
    /\ drop_sensor.total_drops = 0
    /\ monitoring_state[1].delivered_ml.n = 0

\* C26: a MONITORING iteration that handles a Calibrate/Reset press leaves
\* the drop count, the sliding window, delivered_ml, percent_delivered, the
\* milestone flags and the four one-shot flags zeroed and the session timer
\* restarted at that iteration, and leaves the prescription and the state
\* as they were, and the mode too unless the network re-check ran.
CalibrateResetsCountersOnly ==
    [][(/\ pc = "loop"
        /\ state = STATE_MONITORING
        /\ cycles' = cycles + 1
        /\ state' = STATE_MONITORING
        /\ pressed'.cal /\ ~pressed'.new /\ ~pressed'.term)
       => /\ drop_sensor'.total_drops = 0
          /\ drop_sensor'.drop_timestamps = <<>>
          /\ monitoring_state'[1].delivered_ml.n = 0
          /\ monitoring_state'[1].percent_delivered.n = 0
          /\ \A m \in {0, 25, 50, 100} : ~monitoring_state'[1].milestone_flags[m]
          /\ ~monitoring_state'[1].low_volume_sent
          /\ ~monitoring_state'[1].bubble_sent
          /\ ~monitoring_state'[1].no_flow_sent
          /\ ~monitoring_state'[1].time_elapsed_sent
          /\ monitoring_state'[1].start_time = <<now \div 1000>>
          /\ prescription' = prescription
          /\ last_network_check' = last_network_check => mode' = mode]_vars

\* Calibrate/Reset has just zeroed a session whose low-volume flag and
\* milestone 0 had been raised
CalibratedAfterADrop ==
    /\ state = STATE_MONITORING
    /\ pressed.cal
    /\ monitoring_state # None
    /\ ~monitoring_state[1].milestone_flags[0]
    /\ ~monitoring_state[1].low_volume_sent
    /\ prescription.target_volume_ml = <<1>>
    /\ drop_sensor.total_drops = 0
    /\ fired = <<>>

\* C28: every PRESCRIPTION_INPUT iteration that enters MONITORING leaves
\* alarm_silenced false.
SessionStartsUnsilenced ==
    [][(/\ pc = "loop"
        /\ state = STATE_PRESCRIPTION_INPUT
        /\ cycles' = cycles + 1
        /\ state' = STATE_MONITORING)
       => ~alarm_silenced']_vars

\* C29: the drop sensor is polled in BUBBLE_ALARM too: an iteration of
\* BUBBLE_ALARM in which the drop pin rises, the debounce interval over, adds
\* the drop to total_drops and restarts the no-flow timer.
DropsCountedDuringBubbleAlarm ==
    [][(/\ pc = "loop"
        /\ state = STATE_BUBBLE_ALARM
        /\ cycles' = cycles + 1
        /\ monitoring_state # None
        /\ drop_pin = 0
        /\ drop_pin' = 1
        /\ drop_sensor.last_state = 0
        /\ now - drop_sensor.last_drop_time >= drop_sensor.debounce_ms)
       => /\ drop_sensor'.total_drops = drop_sensor.total_drops + 1
          /\ drop_sensor'.last_drop_time = now]_vars

\* C24: every TIME_ELAPSED iteration polls the drop sensor and updates
\* delivered_ml from the drop count: a rising edge past the debounce
\* interval is counted; and an iteration that finds delivered_ml >=
\* target_volume_ml with no button pressed moves to COMPLETE.
TimeElapsedKeepsCounting ==
    [][(/\ pc = "loop"
        /\ state = STATE_TIME_ELAPSED
        /\ cycles' = cycles + 1
        /\ monitoring_state # None)
       => /\ (/\ drop_sensor.last_state = 0
              /\ drop_pin' = 1
              /\ now - drop_sensor.last_drop_time >= drop_sensor.debounce_ms)
             => drop_sensor'.total_drops = drop_sensor.total_drops + 1
          /\ monitoring_state'[1].delivered_ml.n * prescription.drip_factor_gtt_ml
               = drop_sensor'.total_drops * monitoring_state'[1].delivered_ml.d
          /\ (/\ monitoring_state'[1].delivered_ml.n
                   >= prescription.target_volume_ml[1]
                        * monitoring_state'[1].delivered_ml.d
              /\ ~pressed'.ack /\ ~pressed'.new /\ ~pressed'.cal /\ ~pressed'.term)
             => state' = STATE_COMPLETE]_vars

\* a drop counted in TIME_ELAPSED has completed the volume, nobody having
\* pressed a button, and the machine is in COMPLETE
CompletedWhileElapsed ==
    /\ state = STATE_COMPLETE
    /\ pressed = NoButtons
    /\ monitoring_state # None
    /\ prescription.target_volume_ml = <<2>>
    /\ drop_sensor.total_drops = 2
    /\ monitoring_state[1].delivered_ml.n = 2 * monitoring_state[1].delivered_ml.d
    /\ ~monitoring_state[1].milestone_flags[100]
    /\ buzzer.mode = "low"
    /\ leds = [red |-> FALSE, yellow |-> TRUE, green |-> FALSE]

\* C27: a MONITORING iteration in which remaining_ml falls from at least
\* 200 mL to less, no guard firing and no button pressed in it, leaves the
\* buzzer in mode LOW, whatever was acknowledged before.
LowVolumeAlarmSounds ==
    [][(/\ pc = "loop"
        /\ state = STATE_MONITORING
        /\ cycles' = cycles + 1
        /\ state' = STATE_MONITORING
        /\ monitoring_state # None
        /\ monitoring_state[1].remaining_ml.n >= 200 * monitoring_state[1].remaining_ml.d
        /\ monitoring_state'[1].remaining_ml.n < 200 * monitoring_state'[1].remaining_ml.d
        /\ ~pressed'.ack /\ ~pressed'.new /\ ~pressed'.cal /\ ~pressed'.term)
       => buzzer'.mode = "low"]_vars

\* C30: with no button pressed and no bubble confirmed, a session in
\* MONITORING, NO_FLOW or TIME_ELAPSED whose delivered_ml has reached
\* target_volume_ml eventually enters COMPLETE, whether the drops stop or
\* keep falling (sessions that reach the target at least Settled ms before
\* Horizon).
DeliveredLeadsToComplete ==
    (/\ state \in {STATE_MONITORING, STATE_NO_FLOW, STATE_TIME_ELAPSED}
     /\ monitoring_state # None
     /\ monitoring_state[1].delivered_ml.n
          >= prescription.target_volume_ml[1] * monitoring_state[1].delivered_ml.d
     /\ now + Settled <= Horizon)
       ~> (state = STATE_COMPLETE)

\* a session whose drops kept falling after the target was reached is in
\* COMPLETE, no button having been pressed
CompleteWithDropsStillFalling ==
    /\ state = STATE_COMPLETE
    /\ pressed = NoButtons
    /\ cycles = 0
    /\ monitoring_state # None
    /\ drop_sensor.total_drops > prescription.target_volume_ml[1]
    /\ now - drop_sensor.last_drop_time <= 30000

\* C37: on the keypad, after any sequence of at most max_digits digit
\* presses since clear(), each separated from the next by a release, the
\* buffer of the KeypadInput is that sequence, the same digit pressed twice
\* in a row included.
KeypadEntersTheDigitsPressed ==
    (/\ Len(key_log.typed) <= keypad_input.max_digits
     /\ \A i \in 1..Len(key_log.typed) : key_log.typed[i] \in Digits)
    => keypad_input.buffer = key_log.typed

\* C31: whenever the state is COMPLETE there is a session and its
\* delivered_ml is at least the target volume of the prescription.
CompleteMeansDelivered ==
    state = STATE_COMPLETE
    => /\ monitoring_state # None
       /\ prescription.target_volume_ml # None
       /\ monitoring_state[1].delivered_ml.n
            >= prescription.target_volume_ml[1] * monitoring_state[1].delivered_ml.d

\* a session that reached COMPLETE through the no-flow guard of MONITORING
CompleteReached ==
    /\ state = STATE_COMPLETE
    /\ pc = "loop"
    /\ monitoring_state # None
    /\ drop_sensor.total_drops > 0
    /\ now - drop_sensor.last_drop_time > DROP_CONFIRM_TIMEOUT_SEC * 1000

\* C32: an update of the unlatched detector that finds the pending trigger
\* timestamp of one sensor older than the confirmation window, that sensor
\* not triggering anew, discards the timestamp and confirms no bubble,
\* whether or not the other sensor triggers in that update; so no state
\* after an update of the unlatched detector holds a timestamp older than
\* the window for a later trigger of the other sensor to pair with.
AgedTriggerDiscarded ==
    [][(/\ now' # now
        /\ ~bubble_detector.bubble_confirmed)
       => /\ (/\ bubble_detector.last_ir_trigger # None
              /\ now' - bubble_detector.last_ir_trigger[1]
                   > bubble_detector.confirm_window_ms
              /\ ~(bubble_detector.last_ir_state = 1
                   /\ bubble_detector'.last_ir_state = 0))
             => /\ bubble_detector'.last_ir_trigger = None
                /\ ~bubble_detector'.bubble_confirmed
          /\ (/\ bubble_detector.last_slot_trigger # None
              /\ now' - bubble_detector.last_slot_trigger[1]
                   > bubble_detector.confirm_window_ms
              /\ ~(bubble_detector.last_slot_state = 1
                   /\ bubble_detector'.last_slot_state = 0))
             => /\ bubble_detector'.last_slot_trigger = None
                /\ ~bubble_detector'.bubble_confirmed
          /\ ~bubble_detector'.bubble_confirmed
             => /\ bubble_detector'.last_ir_trigger # None
                   => now' - bubble_detector'.last_ir_trigger[1]
                        <= bubble_detector.confirm_window_ms
                /\ bubble_detector'.last_slot_trigger # None
                   => now' - bubble_detector'.last_slot_trigger[1]
                        <= bubble_detector.confirm_window_ms]_vars

\* both sensors triggered since the last clear, the first trigger was
\* discarded and the later trigger of the other sensor is pending, unconfirmed
LateTriggerUnconfirmed ==
    /\ bubble_log.ir /\ bubble_log.slot
    /\ bubble_log.fires = 0
    /\ ~bubble_detector.bubble_confirmed
    /\ (bubble_detector.last_ir_trigger = None)
         # (bubble_detector.last_slot_trigger = None)

\* C33: an update leaves a set latch set; clear_bubble() and reset() leave
\* the latch and bubble_detected clear and both trigger timestamps None; and
\* an update that sets the latch follows a trigger of both sensors since the
\* last clear, the two timestamps within the confirmation window.
LatchHeldUntilCleared ==
    [][/\ (now' # now /\ bubble_detector.bubble_confirmed)
          => bubble_detector'.bubble_confirmed
       /\ (now' = now /\ cycles' # cycles)
          => /\ ~bubble_detector'.bubble_confirmed
             /\ ~bubble_detector'.bubble_detected
             /\ bubble_detector'.last_ir_trigger = None
             /\ bubble_detector'.last_slot_trigger = None
       /\ (~bubble_detector.bubble_confirmed /\ bubble_detector'.bubble_confirmed)
          => /\ now' # now
             /\ bubble_log'.ir /\ bubble_log'.slot
             /\ bubble_detector'.last_ir_trigger # None
             /\ bubble_detector'.last_slot_trigger # None
             /\ abs(bubble_detector'.last_ir_trigger[1]
                      - bubble_detector'.last_slot_trigger[1])
                   <= bubble_detector.confirm_window_ms]_vars

\* a bubble confirmed after clear_bubble()/reset() cleared a confirmed one
ConfirmedAgainAfterClear ==
    /\ bubble_log.cleared
    /\ bubble_detector.bubble_confirmed
    /\ bubble_log.fires = 1

\* C34: whichever state the state machine is in, BUBBLE_ALARM and COMPLETE
\* included, an iteration of the main loop leaves no timestamp in the drop
\* window that is more than 60 s older than the time of that iteration.
WindowFreshInEveryState ==
    [][(pc = "loop" /\ cycles' # cycles /\ state # STATE_TERMINATED)
       => \A i \in DOMAIN drop_sensor'.drop_timestamps :
             ticks_diff(now, drop_sensor'.drop_timestamps[i]) <= WINDOW_MS]_vars

\* C35: while a session lasts and the drop counter is not reset (no new
\* prescription, no Calibrate/Reset), percent_delivered is within 0..100
\* after every iteration of the main loop and is never less than it was
\* before the iteration, whatever the drop pin does.
PercentClampedAndRising ==
    [][(/\ monitoring_state # None
        /\ monitoring_state' # None
        /\ state # STATE_PRESCRIPTION_INPUT
        /\ drop_sensor'.total_drops >= drop_sensor.total_drops)
       => /\ monitoring_state'[1].percent_delivered.n * monitoring_state[1].percent_delivered.d
               >= monitoring_state[1].percent_delivered.n * monitoring_state'[1].percent_delivered.d
          /\ monitoring_state'[1].percent_delivered.n >= 0
          /\ monitoring_state'[1].percent_delivered.n
               <= 100 * monitoring_state'[1].percent_delivered.d]_vars

\* more drops counted than the target volume holds: percent_delivered is 100
PercentHeldAtHundred ==
    /\ monitoring_state # None
    /\ prescription.target_volume_ml # None
    /\ drop_sensor.total_drops
         > prescription.target_volume_ml[1] * prescription.drip_factor_gtt_ml
    /\ monitoring_state[1].delivered_ml.n
         > prescription.target_volume_ml[1] * monitoring_state[1].delivered_ml.d
    /\ monitoring_state[1].percent_delivered.n
         = 100 * monitoring_state[1].percent_delivered.d

\* C36: the periodic network check of MONITORING, when it is due, changes
\* the mode (online exactly when the probe succeeded, local-only when it
\* failed or raised) and the re-check timestamp and nothing else of the
\* context: not the state, the session, the sensors, the buzzer or the
\* silence flag; when it is not due it changes nothing.  An iteration in
\* which the check ran with no button pressed stays in MONITORING, the loop
\* still running, alarm_silenced as it was.
RecheckChangesModeOnly ==
    [][(pc = "loop" /\ state = STATE_MONITORING /\ monitoring_state # None)
       => /\ \A probe \in BOOLEAN :
               network_check(Ctx, probe) =
                   IF time_s(now) - last_network_check >= NETWORK_RECHECK_SEC
                   THEN [Ctx EXCEPT
                           !.mode = IF probe THEN MODE_ONLINE ELSE MODE_LOCAL_ONLY,
                           !.last_network_check = time_s(now)]
                   ELSE Ctx
          /\ (last_network_check' # last_network_check /\ pressed' = NoButtons)
             => /\ last_network_check' = time_s(now)
                /\ mode' \in {MODE_ONLINE, MODE_LOCAL_ONLY}
                /\ state' = STATE_MONITORING
                /\ pc' = "loop"
                /\ alarm_silenced' = alarm_silenced
                /\ monitoring_state' # None
                /\ prescription' = prescription]_vars

\* the system booted without WiFi and a periodic check during the session
\* found the internet: the mode is online, the session goes on
RecheckSwitchedToOnline ==
    /\ pc = "loop"
    /\ state = STATE_MONITORING
    /\ monitoring_state # None
    /\ pressed = NoButtons
    /\ last_network_check > monitoring_state[1].start_time[1]
    /\ ~sms_connected
    /\ mode = MODE_ONLINE

\* C38: whenever the mode is online the SMS sender is connected, also after
\* WiFi failed at boot and the periodic check switched the mode to online.
OnlineMeansConnected == mode = MODE_ONLINE => sms_connected

\* C39: within a session a one-shot flag (low_volume_sent, bubble_sent,
\* no_flow_sent, time_elapsed_sent) becomes true only in an iteration in
\* which sms.send was called for that kind of event; a condition that
\* arises in local-only mode leaves its flag false.
FlagSetOnlyWithSend ==
    [][(/\ monitoring_state # None
        /\ monitoring_state' # None
        /\ state # STATE_PRESCRIPTION_INPUT)
       => /\ (~monitoring_state[1].low_volume_sent /\ monitoring_state'[1].low_volume_sent)
             => sent'["low_volume"] = sent["low_volume"] + 1
          /\ (~monitoring_state[1].bubble_sent /\ monitoring_state'[1].bubble_sent)
             => sent'["bubble"] = sent["bubble"] + 1
          /\ (~monitoring_state[1].no_flow_sent /\ monitoring_state'[1].no_flow_sent)
             => sent'["no_flow"] = sent["no_flow"] + 1
          /\ (~monitoring_state[1].time_elapsed_sent
              /\ monitoring_state'[1].time_elapsed_sent)
             => sent'["time_elapsed"] = sent["time_elapsed"] + 1]_vars

\* C40: whenever the loop is about to run the PRESCRIPTION_INPUT state the
\* buzzer is silent: its mode is off and the PWM duty is 0, whichever state
\* New was pressed in.
SilentInPrescriptionInput ==
    (pc = "loop" /\ state = STATE_PRESCRIPTION_INPUT)
    => buzzer.mode = MODE_OFF /\ buzzer.duty = 0

=============================================================================
